---- MODULE Spec2Model ----
(***************************************************************************)
(* Model of the voice assistant's local command pipeline                   *)
(*   utterance -> detectIntent -> dispatch -> action -> log line           *)
(* (src/brain/intentEngine.ts, src/brain/localBrain.ts, src/dispatcher.ts  *)
(* and their sibling revisions) and of the WhatsApp Web automation session *)
(* (src/actions/whatsapp.ts).                                              *)
(*                                                                         *)
(* JavaScript strings are TLA+ strings, handled character by character     *)
(* with Len, SubSeq and \o.  A JavaScript value that may be null or        *)
(* undefined is a sequence: Null is <<>> and the string s is <<s>>.        *)
(***************************************************************************)
EXTENDS Naturals, Sequences, FiniteSets, TLC

VARIABLES
  rawText,    \* the transcribed utterance handed to detectIntent
  brain,      \* which revision of the helper module './localBrain' is linked
  pc,         \* position of the pipeline: heard, classified, dispatched
  intent,     \* the Intent detectIntent returned
  events,     \* what dispatch and the actions did, in order: calls, spawns, writes, log lines
  pending,    \* exec callbacks registered and not yet run
  outcome,    \* how the dispatch call ended, as its caller sees it
  waBrowser,  \* whatsapp.ts: module variable browser (0 is null, else the context's number)
  waPage,     \* whatsapp.ts: module variable page (0 is null, else the page's number)
  waCalls,    \* whatsapp.ts: the calls made so far, each with its position
  waLaunched, \* number of launchPersistentContext calls made so far
  waPagesMade,\* number of newPage calls made so far
  waUsed,     \* the page handles the calls have operated on: pairs <<call, page>>
  disk,       \* the file system: its directories and the content of its files
  result,     \* the last direct call of an action: its arguments and what it returned
  ops,        \* number of direct calls of actions made so far
  xText,      \* the text handed to the slot extractors
  xCalls,     \* the extractor calls made on xText so far, each with what it returned
  tMsgs,      \* Myra app: the toolCall messages received, each with the position of its handler
  toolLogs,   \* Myra app: the state toolLogs, newest entry first
  tSent,      \* the tool responses handed to session.sendToolResponse, in order
  tErrors,    \* the ids of the calls for which a TOOL_ERROR line was logged, in order
  aClock,     \* Myra app: ctx.currentTime of the output audio context
  nextStartTime, \* Myra app: nextStartTimeRef.current
  aMsgs,      \* the audio messages received, each with the position of its handler
  aStarted,   \* the source.start(when) calls made, in order
  status,     \* Myra app: the state status: idle, connecting, online
  prevStatus, \* the value status had before it last changed
  isListening,\* Myra app: systemStatus.isListening
  held,       \* the refs that are set: mediaStream, frameInterval, audioCtx
  attempts,   \* the startAssistant calls made, each with its position and its session
  lastUnreadCount, \* whatsapp.ts: module variable lastUnreadCount
  polls,      \* the watcher's polls so far: what each observed and what it passed to onNewMessage
  tasks,      \* App.tsx: the state tasks; reminderAt 0 is undefined
  tNow,       \* Date.now(), in ticks
  lastFired   \* what the last run of the reminder interval passed to triggerReminder

pipeVars == <<rawText, brain, pc, intent, events, pending, outcome>>
waVars == <<waBrowser, waPage, waCalls, waLaunched, waPagesMade, waUsed>>
actVars == <<disk, result, ops>>
extVars == <<xText, xCalls>>
toolVars == <<tMsgs, toolLogs, tSent, tErrors>>
audioVars == <<aClock, nextStartTime, aMsgs, aStarted>>
myraVars == <<status, prevStatus, isListening, held, attempts>>
watchVars == <<lastUnreadCount, polls>>
taskVars == <<tasks, tNow, lastFired>>
notTasks == <<pipeVars, waVars, actVars, extVars, toolVars, audioVars, myraVars, watchVars>>
notWatch == <<pipeVars, waVars, actVars, extVars, toolVars, audioVars, myraVars, taskVars>>
notExt == <<pipeVars, waVars, actVars, toolVars, audioVars, myraVars, watchVars, taskVars>>
notTool == <<pipeVars, waVars, actVars, extVars, audioVars, myraVars, watchVars, taskVars>>
notMyra == <<pipeVars, waVars, actVars, extVars, toolVars, audioVars, watchVars, taskVars>>
notAudio == <<pipeVars, waVars, actVars, extVars, toolVars, myraVars, watchVars, taskVars>>
uiVars == <<extVars, toolVars, audioVars, myraVars, watchVars, taskVars>>
vars == <<rawText, brain, pc, intent, events, pending, outcome,
          waBrowser, waPage, waCalls, waLaunched, waPagesMade, waUsed,
          disk, result, ops, xText, xCalls, tMsgs, toolLogs, tSent, tErrors,
          aClock, nextStartTime, aMsgs, aStarted,
          status, prevStatus, isListening, held, attempts,
          lastUnreadCount, polls, tasks, tNow, lastFired>>

(***************************************************************************)
(* Bounds of the model.                                                    *)
(***************************************************************************)
\* an utterance is an optional wake prefix followed by at most MaxParts phrases
MaxParts == 2
\* number of sendWhatsAppMessage / checkNewMessages calls made in one run
MaxCalls == 2
\* number of direct calls of openApp, open_application and createFile in one run
MaxOps == 2
\* number of slot extractor calls made on one text
MaxExtractCalls == 2
\* number of toolCall messages the session delivers in one run
MaxToolMsgs == 2
\* number of audio chunks the session delivers in one run
MaxChunks == 2
\* the playback clock counts up to MaxClock
MaxClock == 3
\* number of tasks in the list
MaxTasks == 3
\* number of setReminder calls in one run
MaxSets == 3
\* Date.now() counts up to MaxNow
MaxNow == 3
\* number of polls of the WhatsApp watcher in one run
MaxPolls == 4
\* the largest number of unread badges a poll finds
MaxUnread == 2
\* number of startAssistant calls that pass the status test in one run
MaxAttempts == 3

(***************************************************************************)
(* JavaScript values and string primitives.                                *)
(***************************************************************************)
Null == <<>>
Str(s) == <<s>>
\* a guard that lets every value through
Truthy_always(v) == TRUE

\* JavaScript truthiness of a string-or-null value: null and '' are falsy
Truthy(v) == v # Null /\ v[1] # ""

Ch(s, i) == SubSeq(s, i, i)
MinOf(S) == CHOOSE m \in S : \A n \in S : m <= n
MaxOf(S) == CHOOSE m \in S : \A n \in S : m >= n

UpperCase == "ABCDEFGHIJKLMNOPQRSTUVWXYZ"
LowerCase == "abcdefghijklmnopqrstuvwxyz"
DigitChars == "0123456789"

\* position of character c in alphabet, 0 when it is not there
IndexIn(c, alphabet) ==
  LET at == {i \in 1..Len(alphabet) : Ch(alphabet, i) = c}
  IN IF at = {} THEN 0 ELSE MinOf(at)

CharsOf(alphabet) == {Ch(alphabet, i) : i \in 1..Len(alphabet)}
UpperChars == CharsOf(UpperCase)
LowerChars == CharsOf(LowerCase)
DigitSet == CharsOf(DigitChars)
\* the lower-case letter of each upper-case letter, and the value of each digit
LowerOf == [c \in UpperChars |-> Ch(LowerCase, IndexIn(c, UpperCase))]
DigitValue == [c \in DigitSet |-> IndexIn(c, DigitChars) - 1]

IsUpper(c) == c \in UpperChars
IsLower(c) == c \in LowerChars
IsDigit(c) == c \in DigitSet
\* the regular expression class \s
IsSpace(c) == c \in {" ", "\n", "\t"}
\* the regular expression class [a-z] under the i flag
IsLetter(c) == IsLower(c) \/ IsUpper(c)
\* the regular expression class [a-zA-Z0-9._-]
IsFileChar(c) == IsLetter(c) \/ IsDigit(c) \/ c \in {".", "_", "-"}
\* the regular expression . (no line terminator)
IsDot(c) == c # "\n"

\* membership of a character in a named regular expression class
InClass(c, cls) ==
  CASE cls = "space" -> IsSpace(c)
    [] cls = "letter" -> IsLetter(c)
    [] cls = "fileChar" -> IsFileChar(c)
    [] cls = "dot" -> IsDot(c)
    [] cls = "digit" -> IsDigit(c)
    [] cls = "lower" -> IsLower(c)

toLowerChar(c) == IF IsUpper(c) THEN LowerOf[c] ELSE c

\* String.prototype.toLowerCase
RECURSIVE toLowerCase(_)
toLowerCase(s) ==
  IF \A i \in 1..Len(s) : ~IsUpper(Ch(s, i)) THEN s
  ELSE toLowerChar(Ch(s, 1)) \o toLowerCase(SubSeq(s, 2, Len(s)))

\* String.prototype.trim
trim(s) ==
  LET keep == {i \in 1..Len(s) : ~IsSpace(Ch(s, i))}
  IN IF keep = {} THEN "" ELSE SubSeq(s, MinOf(keep), MaxOf(keep))

\* String.prototype.indexOf, counted from 1; 0 when w does not occur
indexOf(s, w) ==
  LET at == {i \in 1..(Len(s) + 1) :
               /\ i + Len(w) - 1 <= Len(s)
               /\ w = "" \/ Ch(s, i) = Ch(w, 1)
               /\ SubSeq(s, i, i + Len(w) - 1) = w}
  IN IF at = {} THEN 0 ELSE MinOf(at)

\* a test that finds w only where it stands as a whole word
includes_word(s, w) ==
  \E i \in 1..Len(s) :
    /\ i + Len(w) - 1 <= Len(s)
    /\ SubSeq(s, i, i + Len(w) - 1) = w
    /\ (i = 1 \/ ~IsLetter(Ch(s, i - 1)))
    /\ (i + Len(w) > Len(s) \/ ~IsLetter(Ch(s, i + Len(w))))

\* String.prototype.includes
includes(s, w) == indexOf(s, w) # 0

\* String.prototype.replace(w, ''): removes the first occurrence of w only
removeFirst(s, w) ==
  LET i == indexOf(s, w)
  IN IF i = 0 THEN s ELSE SubSeq(s, 1, i - 1) \o SubSeq(s, i + Len(w), Len(s))

\* first index >= i whose character is not in the class, Len(s)+1 when the run reaches the end
runEnd(s, i, cls) ==
  LET stops == {j \in i..Len(s) : ~InClass(Ch(s, j), cls)}
  IN IF stops = {} THEN Len(s) + 1 ELSE MinOf(stops)

\* literal lit matches at position i of s, ignoring case (the i flag)
litAt(s, i, lit) ==
  /\ i >= 1
  /\ i + Len(lit) - 1 <= Len(s)
  /\ toLowerChar(Ch(s, i)) = Ch(lit, 1)
  /\ toLowerCase(SubSeq(s, i, i + Len(lit) - 1)) = lit

\* Number(digits) for a run of decimal digits
RECURSIVE toNumber(_)
toNumber(d) ==
  IF d = "" THEN 0
  ELSE 10 * toNumber(SubSeq(d, 1, Len(d) - 1)) + DigitValue[Ch(d, Len(d))]

(***************************************************************************)
(* Regular expressions of the slot extractors.  Each operator returns what *)
(* String.prototype.match returns for the leftmost match: the first        *)
(* capture group as <<capture>>, or Null.  Quantifiers are greedy; the     *)
(* classes that follow one another are disjoint, so the greedy choice is   *)
(* the only one that can match.                                            *)
(***************************************************************************)
\* /lit\s+(cls+)/i
matchLitClass(s, lit, cls) ==
  LET ok(i) == /\ litAt(s, i, lit)
               /\ LET b == runEnd(s, i + Len(lit), "space")
                  IN b > i + Len(lit) /\ runEnd(s, b, cls) > b
      at == {i \in 1..Len(s) : ok(i)}
  IN IF at = {} THEN Null
     ELSE LET b == runEnd(s, MinOf(at) + Len(lit), "space")
          IN Str(SubSeq(s, b, runEnd(s, b, cls) - 1))

\* /lit\s+(.*)/i
matchLitRest(s, lit) ==
  LET ok(i) == litAt(s, i, lit) /\ runEnd(s, i + Len(lit), "space") > i + Len(lit)
      at == {i \in 1..Len(s) : ok(i)}
  IN IF at = {} THEN Null
     ELSE LET b == runEnd(s, MinOf(at) + Len(lit), "space")
          IN Str(SubSeq(s, b, runEnd(s, b, "dot") - 1))

\* /lit1\s+lit2\s+(.*)/i
matchLitLitRest(s, lit1, lit2) ==
  LET afterSp(i) == runEnd(s, i + Len(lit1), "space")
      ok(i) == /\ litAt(s, i, lit1)
               /\ afterSp(i) > i + Len(lit1)
               /\ litAt(s, afterSp(i), lit2)
               /\ runEnd(s, afterSp(i) + Len(lit2), "space") > afterSp(i) + Len(lit2)
      at == {i \in 1..Len(s) : ok(i)}
  IN IF at = {} THEN Null
     ELSE LET b == runEnd(s, afterSp(MinOf(at)) + Len(lit2), "space")
          IN Str(SubSeq(s, b, runEnd(s, b, "dot") - 1))

\* /message\s+to\s+[a-z]+\s+(.*)/i
matchMessageTo(s) ==
  LET a1(i) == runEnd(s, i + 7, "space")        \* after message\s+
      a2(i) == runEnd(s, a1(i) + 2, "space")    \* after to\s+
      a3(i) == runEnd(s, a2(i), "letter")       \* after [a-z]+
      a4(i) == runEnd(s, a3(i), "space")        \* after \s+
      ok(i) == /\ litAt(s, i, "message")
               /\ a1(i) > i + 7
               /\ litAt(s, a1(i), "to")
               /\ a2(i) > a1(i) + 2
               /\ a3(i) > a2(i)
               /\ a4(i) > a3(i)
      at == {i \in 1..Len(s) : ok(i)}
  IN IF at = {} THEN Null
     ELSE LET b == a4(MinOf(at))
          IN Str(SubSeq(s, b, runEnd(s, b, "dot") - 1))

\* m ? m[1].trim() : null
trimmed(m) == IF m = Null THEN Null ELSE Str(trim(m[1]))
\* a || b on match results (a match result is truthy exactly when it is not null)
orElse(a, b) == IF a # Null THEN a ELSE b

(***************************************************************************)
(* The helper module './localBrain'.  Two revisions exist: the file        *)
(* src/brain/localBrain.ts, and the revision in src/unnamed/part_007 that  *)
(* also exports extractFileName and extractFileContent (the names          *)
(* intentEngine.ts imports) and strips 'assistance'.  The definitions      *)
(* ending in _v2 are the part_007 revision; brain says which one is linked.*)
(***************************************************************************)
Brains == {"localBrain", "part_007"}

matchesAny(text, words) == \E k \in 1..Len(words) : includes(text, words[k])

matchesAny_v2(text, words) == \E k \in 1..Len(words) : includes(text, toLowerCase(words[k]))

WAKE_WORDS == <<"bumba", "hey bumba", "ok bumba">>

WAKE_WORDS_v2 == <<"assistance", "bumba", "hey bumba", "ok bumba">>

\* the loop  for (const word of words) clean = clean.replace(word, '')
RECURSIVE replaceEach(_, _)
replaceEach(clean, words) ==
  IF words = <<>> THEN clean ELSE replaceEach(removeFirst(clean, Head(words)), Tail(words))

removeWakeWord(text) == trim(replaceEach(text, WAKE_WORDS))

removeWakeWord_v2(text) == trim(replaceEach(toLowerCase(text), WAKE_WORDS_v2))

\* the fallback ignored: 0 when the text has no digit
extractNumber_noFallback(text, fallback) ==
  LET at == {i \in 1..Len(text) : IsDigit(Ch(text, i))}
  IN IF at = {} THEN 0
     ELSE toNumber(SubSeq(text, MinOf(at), runEnd(text, MinOf(at), "digit") - 1))

extractNumber(text, fallback) ==
  LET at == {i \in 1..Len(text) : IsDigit(Ch(text, i))}
  IN IF at = {} THEN fallback
     ELSE toNumber(SubSeq(text, MinOf(at), runEnd(text, MinOf(at), "digit") - 1))

\* the keys in insertion order, which is the order for..in visits them
APP_ALIASES ==
  << [app |-> "chrome",     aliases |-> <<"chrome", "browser", "google">>],
     [app |-> "whatsapp",   aliases |-> <<"whatsapp", "whats app", "chat">>],
     [app |-> "notepad",    aliases |-> <<"notepad", "editor", "note">>],
     [app |-> "calculator", aliases |-> <<"calculator", "calc">>] >>

\* app names only, no alias table
extractAppName_namesOnly(text) ==
  LET hit == {k \in 1..Len(APP_ALIASES) : includes(text, APP_ALIASES[k].app)}
  IN IF hit = {} THEN Null ELSE Str(APP_ALIASES[MinOf(hit)].app)

\* the app whose alias stands earliest in the text
extractAppName_byPosition(text) ==
  LET pos(k) == {indexOf(text, APP_ALIASES[k].aliases[a]) : a \in 1..Len(APP_ALIASES[k].aliases)} \ {0}
      hit == {k \in 1..Len(APP_ALIASES) : pos(k) # {}}
  IN IF hit = {} THEN Null
     ELSE Str(APP_ALIASES[CHOOSE k \in hit : \A j \in hit : MinOf(pos(k)) <= MinOf(pos(j))].app)

extractAppName(text) ==
  LET hit == {k \in 1..Len(APP_ALIASES) :
                \E a \in 1..Len(APP_ALIASES[k].aliases) : includes(text, APP_ALIASES[k].aliases[a])}
  IN IF hit = {} THEN Null ELSE Str(APP_ALIASES[MinOf(hit)].app)

extractAppName_v2(text) == extractAppName(toLowerCase(text))

extractContact(text) ==
  LET m == orElse(matchLitClass(text, "to", "letter"), matchLitClass(text, "whatsapp", "letter"))
  IN m

\* without the pattern that skips 'to <name>'
extractMessage_keepsContact(text) ==
  trimmed(orElse(matchLitRest(text, "message"), matchLitRest(text, "text")))

extractMessage(text) ==
  LET m == orElse(matchMessageTo(text),
                  orElse(matchLitRest(text, "message"), matchLitRest(text, "text")))
  IN trimmed(m)

\* another default name
extractFileName_untitled(text) ==
  LET m == orElse(matchLitClass(text, "named", "fileChar"),
                  orElse(matchLitClass(text, "file", "fileChar"),
                         matchLitClass(text, "create", "fileChar")))
  IN IF m # Null THEN m[1] ELSE "untitled.txt"

extractFileName(text) ==
  LET m == orElse(matchLitClass(text, "named", "fileChar"),
                  orElse(matchLitClass(text, "file", "fileChar"),
                         matchLitClass(text, "create", "fileChar")))
  IN IF m # Null THEN m[1] ELSE "new_file.txt"

extractFileContent(text) ==
  LET m == orElse(matchLitRest(text, "content"),
                  orElse(matchLitRest(text, "saying"), matchLitLitRest(text, "with", "text")))
  IN IF m # Null THEN trim(m[1]) ELSE "Created by Myra Assistant"

\* the helper the linked revision b provides
matchesAnyOf(b, text, words) ==
  IF b = "localBrain" THEN matchesAny(text, words) ELSE matchesAny_v2(text, words)
removeWakeWordOf(b, text) ==
  IF b = "localBrain" THEN removeWakeWord(text) ELSE removeWakeWord_v2(text)
extractAppNameOf(b, text) ==
  IF b = "localBrain" THEN extractAppName(text) ELSE extractAppName_v2(text)

(***************************************************************************)
(* detectIntent (src/brain/intentEngine.ts).                               *)
(***************************************************************************)
wakeWords == <<"assistance", "bumba", "hey bumba", "ok bumba">>
createWords == <<"create file", "new file", "text file", "document">>
\* the open keywords without 'open'
openWords_launchOnly == <<"launch", "start">>
openWords == <<"open", "launch", "start">>
volumeWords == <<"volume", "sound", "voice">>
sendWords == <<"send", "message", "text", "whatsapp">>

IntentTypes == {"OPEN_APP", "VOLUME", "SEND_MESSAGE", "CREATE_FILE", "CHAT", "WAKE_UP", "AI_FALLBACK"}

\* the text trimmed but left in the case it was said in
lowered_keepsCase(raw) == trim(raw)

\* const text = rawText.toLowerCase().trim()
lowered(raw) == trim(toLowerCase(raw))

\* const clean = removeWakeWord(text)
cleaned(raw, b) == removeWakeWordOf(b, lowered(raw))

\* the gate returning the normalised text in place of rawText
passThrough_lowered(raw) == [type |-> "CHAT", text |-> Str(trim(toLowerCase(raw)))]

\* return { type: 'CHAT', text: rawText } of the wake-word gate
passThrough(raw) == [type |-> "CHAT", text |-> Str(raw)]

\* the last return answering with a chat intent
fallback_chat(clean) == [type |-> "CHAT", text |-> Str(clean)]

\* return { type: 'AI_FALLBACK', raw: clean }
fallback(clean) == [type |-> "AI_FALLBACK", raw |-> Str(clean)]

detectIntent(raw, b) ==
  IF raw = "" THEN [type |-> "CHAT", text |-> Str("")]
  ELSE
    LET text == lowered(raw)
        clean == removeWakeWordOf(b, text)
        app == extractAppNameOf(b, clean)
        to == extractContact(clean)
        msg == extractMessage(clean)
    IN IF ~matchesAnyOf(b, text, wakeWords)
         THEN passThrough(raw)
       ELSE IF clean = "" \/ Len(clean) < 2
         THEN [type |-> "WAKE_UP", raw |-> Str(raw)]
       ELSE IF matchesAnyOf(b, clean, createWords)
         THEN [type |-> "CREATE_FILE", name |-> Str(extractFileName(clean)),
               content |-> Str(extractFileContent(clean))]
       ELSE IF matchesAnyOf(b, clean, openWords) /\ Truthy(app)
         THEN [type |-> "OPEN_APP", app |-> app]
       ELSE IF matchesAnyOf(b, clean, volumeWords)
         THEN [type |-> "VOLUME", value |-> extractNumber(clean, 50)]
       ELSE IF matchesAnyOf(b, clean, sendWords) /\ Truthy(to) /\ Truthy(msg)
         THEN [type |-> "SEND_MESSAGE", to |-> to, text |-> msg]
       ELSE fallback(clean)

(***************************************************************************)
(* The utterances the model hears: an optional wake prefix followed by at  *)
(* most MaxParts phrases joined by single spaces.                          *)
(***************************************************************************)
WakePrefixes ==
  {"", " ", "bumba ", "hey bumba ", "ok bumba ", "assistance ", " Hey BUMBA ", "bumbas "}

Phrases ==
  { "open chrome", "open whatsapp", "open whats app", "open chat",
    "volume", "set volume to 80", "30", "send message to ram hello boss",
    "send message to ram", "send hello", "open the volume 30",
    "what's the weather", "create file notes.txt" }

RECURSIVE Joins(_)
Joins(n) ==
  IF n = 0 THEN {""}
  ELSE {p \o (IF q = "" THEN "" ELSE " " \o q) : p \in Phrases, q \in Joins(n - 1)}

Utterances == {w \o u : w \in WakePrefixes, u \in UNION {Joins(n) : n \in 0..MaxParts}}

(***************************************************************************)
(* Actions (the external-effect boundary).                                 *)
(***************************************************************************)
\* the registry without the messaging app
APP_COMMANDS_noWhatsApp ==
  [chrome |-> "start chrome", notepad |-> "notepad", calculator |-> "calc"]

\* the app registry of openApp; the keys are the registered app keys
APP_COMMANDS ==
  [chrome |-> "start chrome", whatsapp |-> "start whatsapp:",
   notepad |-> "notepad", calculator |-> "calc"]

\* the app key handed to exec without the registry lookup
openApp_noRegistry(app) ==
  IF app = Null THEN <<>> ELSE << [ev |-> "spawn", command |-> toLowerCase(app[1])] >>

\* the lower-case keys every object literal inherits from Object.prototype:
\* APP_COMMANDS[key] is then an inherited object, which is truthy and not a string
InheritedKeys == {"constructor", "__proto__"}

\* openApp(app), up to its return: what it appends to events.  A null app
\* makes app.toLowerCase() throw, and an inherited key makes exec throw on a
\* command that is not a string; either rejects the promise of the async function.
openApp(app) ==
  IF app = Null THEN <<>>
  ELSE LET key == toLowerCase(app[1])
       IN IF key \in InheritedKeys THEN <<>>
          ELSE IF key \notin DOMAIN APP_COMMANDS
            THEN << [ev |-> "log", line |-> "not_supported", text |-> app] >>
            ELSE << [ev |-> "spawn", command |-> APP_COMMANDS[key]] >>

\* the exec callbacks openApp(app) registers
openAppCallbacks(app) ==
  IF app # Null /\ toLowerCase(app[1]) \in DOMAIN APP_COMMANDS THEN << app >> ELSE <<>>

\* whether the promise openApp(app) returns rejects
openAppRejects(app) == app = Null \/ toLowerCase(app[1]) \in InheritedKeys

\* the registry of the open_application tool
TOOL_APP_COMMANDS ==
  [chrome |-> "start chrome", whatsapp |-> "start whatsapp:", notepad |-> "notepad",
   calculator |-> "calc", explorer |-> "explorer", cmd |-> "cmd"]

\* case 'open_application' of handleToolCall: exec is called without a
\* callback and the success result is returned at once; an unsupported app
\* throws, which rejects the handler.  The value returned or thrown is the
\* last event.
open_application(app_name) ==
  LET app == toLowerCase(app_name)
      threw(e) == [events |-> << [ev |-> "throw", error |-> e] >>, ret |-> [threw |-> e]]
  IN IF app \in InheritedKeys THEN threw("TypeError")
     ELSE IF app \in DOMAIN TOOL_APP_COMMANDS
       THEN [events |-> << [ev |-> "spawn", command |-> TOOL_APP_COMMANDS[app]],
                           [ev |-> "return", success |-> TRUE, message |-> "Opened " \o app] >>,
             ret |-> [success |-> TRUE, message |-> "Opened " \o app]]
     ELSE threw("Application " \o app \o " not supported.")

\* path.resolve(fileName) for a relative name, in the working directory
resolve(fileName) == "./" \o fileName

\* path.dirname(p): p up to its last '/'
dirname(p) ==
  LET at == {i \in 1..Len(p) : Ch(p, i) = "/"}
  IN IF at = {} THEN "." ELSE SubSeq(p, 1, MaxOf(at) - 1)

\* the directory p and the directories above it, as mkdirSync(p, {recursive: true}) makes them
RECURSIVE ancestors(_)
ancestors(p) == IF p = "." THEN {"."} ELSE {p} \cup ancestors(dirname(p))

\* fs.existsSync(p): something is at path p, a directory or a file
existsSync(d, p) == p \in d.dirs \/ p \in DOMAIN d.files

\* the filesystem step that fails with an I/O error in a call, if any
FsFailures == {"none", "mkdir", "write"}

\* a write that keeps an existing file as it is
writeFileSync_keepsExisting(d, filePath, content) ==
  [d EXCEPT !.files = [q \in DOMAIN d.files \cup {filePath} |->
                         IF q \in DOMAIN d.files THEN d.files[q] ELSE content]]

\* fs.writeFileSync(filePath, content, 'utf8') on disk d: the file holds
\* content afterwards, whatever it held before
writeFileSync(d, filePath, content) ==
  [d EXCEPT !.files = [q \in DOMAIN d.files \cup {filePath} |->
                         IF q = filePath THEN content ELSE d.files[q]]]

\* createFile(fileName, content) on disk d: the disk afterwards, the value
\* returned and the lines logged.  Every step is inside the try block: a
\* fileName that is not a string makes path.resolve throw, a path below a
\* file makes mkdirSync throw, a path that is a directory or whose parent
\* is a file makes writeFileSync throw, and fail names a step that fails
\* with an I/O error.
createFile(d, fileName, content, fail) ==
  LET failed(dd, step) ==
        [disk |-> dd, ret |-> [success |-> FALSE, error |-> step],
         events |-> << [ev |-> "log", line |-> "file_error", text |-> fileName] >>]
  IN IF fileName = Null THEN failed(d, "resolve")
     ELSE
       LET filePath == resolve(fileName[1])
           dir == dirname(filePath)
           mk == ~existsSync(d, dir)
           mkFails == fail = "mkdir" \/ \E a \in ancestors(dir) : a \in DOMAIN d.files
           d1 == IF mk THEN [d EXCEPT !.dirs = @ \cup ancestors(dir)] ELSE d
           writeFails == fail = "write" \/ filePath \in d1.dirs \/ dir \notin d1.dirs
       IN IF mk /\ mkFails THEN failed(d, "mkdir")
          ELSE IF writeFails THEN failed(d1, "write")
          ELSE [disk |-> writeFileSync(d1, filePath, content[1]),
                ret |-> [success |-> TRUE, path |-> filePath],
                events |-> << [ev |-> "write", path |-> filePath, content |-> content],
                              [ev |-> "log", line |-> "file_created", text |-> Str(filePath)] >>]

\* how a call of setVolume or sendMessage (./actions/volume, ./actions/sendMessage)
\* can end: it returns (or its promise resolves), throws, or returns a promise that rejects
ActionResults == {"ok", "throws", "rejects"}

\* intent[slot], undefined when the variant has no such slot
slotOf(i, slot) == IF slot \in DOMAIN i THEN i[slot] ELSE Null

callEvent(fn, i) ==
  CASE fn = "openApp" -> [ev |-> "call", fn |-> fn, app |-> i.app]
    [] fn = "setVolume" -> [ev |-> "call", fn |-> fn, value |-> i.value]
    [] fn = "sendMessage" -> [ev |-> "call", fn |-> fn, to |-> i.to, text |-> i.text]
    [] fn = "createFile" -> [ev |-> "call", fn |-> fn, name |-> i.name, content |-> i.content]

logChat(v) == [ev |-> "log", line |-> "chat", text |-> v]
logError == [ev |-> "log", line |-> "dispatcher_error", text |-> Null]

(***************************************************************************)
(* The pipeline.                                                           *)
(***************************************************************************)
NoIntent == [type |-> "NONE"]

InitPipe ==
  /\ rawText \in Utterances
  /\ brain \in Brains
  /\ pc = "heard"
  /\ intent = NoIntent
  /\ events = <<>>
  /\ pending = <<>>
  /\ outcome = "none"

\* the disk before anything is created: the working directory, no file
EmptyDisk == [dirs |-> {"."}, files |-> <<>>]
NoResult == [fn |-> "none"]

InitAct ==
  /\ disk = EmptyDisk
  /\ result = NoResult
  /\ ops = 0

InitWA ==
  /\ waBrowser = 0
  /\ waPage = 0
  /\ waCalls = <<>>
  /\ waLaunched = 0
  /\ waPagesMade = 0
  /\ waUsed = {}

\* no extractor call made
IdleExt ==
  /\ xText = ""
  /\ xCalls = <<>>

\* the Myra app before any toolCall message: useState([]) for toolLogs
IdleTools ==
  /\ tMsgs = <<>>
  /\ toolLogs = <<>>
  /\ tSent = <<>>
  /\ tErrors = <<>>

\* a new audio context, nothing scheduled: useRef(0) for nextStartTimeRef
IdleAudio ==
  /\ aClock = 0
  /\ nextStartTime = 0
  /\ aMsgs = <<>>
  /\ aStarted = <<>>

\* the Myra app as mounted: useState('idle'), isListening false, the refs null
IdleMyra ==
  /\ status = "idle"
  /\ prevStatus = "idle"
  /\ isListening = FALSE
  /\ held = {}
  /\ attempts = <<>>

\* whatsapp.ts as loaded: let lastUnreadCount = 0, no poll made
IdleWatch ==
  /\ lastUnreadCount = 0
  /\ polls = <<>>

\* App.tsx after its mount effect: task '1' completed, task '2' open, no
\* reminder set.  sets and fired count, per task, the reminders set and the
\* reminders triggered.
IdleTasks ==
  /\ tasks = << [completed |-> TRUE, reminderAt |-> 0, sets |-> 0, fired |-> 0],
                [completed |-> FALSE, reminderAt |-> 0, sets |-> 0, fired |-> 0] >>
  /\ tNow = 1
  /\ lastFired = <<>>

IdleRest == IdleTools /\ IdleAudio /\ IdleMyra /\ IdleWatch /\ IdleTasks

\* the parts of the program a run does not exercise stay as constructed
InitUi == IdleExt /\ IdleRest

Init == InitPipe /\ InitWA /\ InitAct /\ InitUi

\* the caller: const intent = detectIntent(rawText)
Classify ==
  /\ pc = "heard"
  /\ intent' = detectIntent(rawText, brain)
  /\ pc' = "classified"
  /\ UNCHANGED <<rawText, brain, events, pending, outcome>>
  /\ UNCHANGED waVars
  /\ UNCHANGED uiVars
  /\ UNCHANGED actVars

\* the default branch falling through into an action call
logOnly_fallthrough(i) ==
  <<logChat(slotOf(i, "text")), [ev |-> "call", fn |-> "openApp", app |-> slotOf(i, "text")]>>

\* default: console.log('Chat:', intent.text)
logOnly(i) == <<logChat(slotOf(i, "text"))>>

\* the effects of src/dispatcher.ts dispatch(i): not async, no try/catch, the
\* promise of openApp is dropped
dispatchEffects(i, res) ==
  CASE i.type = "OPEN_APP" ->
         [events |-> <<callEvent("openApp", i)>> \o openApp(i.app),
          pending |-> openAppCallbacks(i.app),
          outcome |-> IF openAppRejects(i.app) THEN "unhandled_rejection" ELSE "returned"]
    [] i.type = "VOLUME" ->
         [events |-> <<callEvent("setVolume", i)>>,
          pending |-> <<>>,
          outcome |-> IF res = "throws" THEN "threw"
                      ELSE IF res = "rejects" THEN "unhandled_rejection" ELSE "returned"]
    [] i.type = "SEND_MESSAGE" ->
         [events |-> <<callEvent("sendMessage", i)>>,
          pending |-> <<>>,
          outcome |-> IF res = "throws" THEN "threw"
                      ELSE IF res = "rejects" THEN "unhandled_rejection" ELSE "returned"]
    [] OTHER ->
         [events |-> logOnly(i), pending |-> <<>>, outcome |-> "returned"]

\* the effects of the dispatch of src/unnamed/part_012, lines 8-36: async, one
\* try/catch around the switch, CREATE_FILE handled, VOLUME and SEND_MESSAGE only logged
dispatchEffects_v2(i, d, fail) ==
  CASE i.type = "CREATE_FILE" ->
         [events |-> << [ev |-> "log", line |-> "creating_file", text |-> i.name],
                        callEvent("createFile", i) >> \o createFile(d, i.name, i.content, fail).events,
          disk |-> createFile(d, i.name, i.content, fail).disk,
          pending |-> <<>>, outcome |-> "resolved"]
    [] i.type = "OPEN_APP" ->
         [events |-> <<callEvent("openApp", i)>> \o openApp(i.app)
                       \o (IF openAppRejects(i.app) THEN <<logError>> ELSE <<>>),
          pending |-> openAppCallbacks(i.app), outcome |-> "resolved"]
    [] i.type = "VOLUME" ->
         [events |-> << [ev |-> "log", line |-> "volume", value |-> i.value] >>,
          pending |-> <<>>, outcome |-> "resolved"]
    [] i.type = "SEND_MESSAGE" ->
         [events |-> << [ev |-> "log", line |-> "sending", to |-> i.to, text |-> i.text] >>,
          pending |-> <<>>, outcome |-> "resolved"]
    [] OTHER ->
         [events |-> <<logChat(IF i.type = "AI_FALLBACK" THEN i.raw ELSE slotOf(i, "text"))>>,
          pending |-> <<>>, outcome |-> "resolved"]

\* the effects of the dispatch of src/unnamed/part_012, lines 46-73: async, one
\* try/catch around the switch, every action awaited
dispatchEffects_v3(i, res) ==
  CASE i.type = "OPEN_APP" ->
         [events |-> <<callEvent("openApp", i)>> \o openApp(i.app)
                       \o (IF openAppRejects(i.app) THEN <<logError>> ELSE <<>>),
          pending |-> openAppCallbacks(i.app), outcome |-> "resolved"]
    [] i.type = "VOLUME" ->
         [events |-> <<callEvent("setVolume", i)>> \o (IF res = "ok" THEN <<>> ELSE <<logError>>),
          pending |-> <<>>, outcome |-> "resolved"]
    [] i.type = "SEND_MESSAGE" ->
         [events |-> <<callEvent("sendMessage", i)>> \o (IF res = "ok" THEN <<>> ELSE <<logError>>),
          pending |-> <<>>, outcome |-> "resolved"]
    [] OTHER ->
         [events |-> <<logChat(slotOf(i, "text"))>>, pending |-> <<>>, outcome |-> "resolved"]

Dispatched(eff) ==
  /\ pc = "classified"
  /\ pc' = "dispatched"
  /\ events' = events \o eff.events
  /\ pending' = pending \o eff.pending
  /\ outcome' = eff.outcome
  /\ disk' = (IF "disk" \in DOMAIN eff THEN eff.disk ELSE disk)
  /\ UNCHANGED <<rawText, brain, intent, result, ops>>
  /\ UNCHANGED waVars
  /\ UNCHANGED uiVars

\* dispatch(intent) of src/dispatcher.ts
dispatch == \E res \in ActionResults : Dispatched(dispatchEffects(intent, res))

\* dispatch(intent) of src/unnamed/part_012, lines 8-36
dispatch_v2 == \E fail \in FsFailures : Dispatched(dispatchEffects_v2(intent, disk, fail))

\* dispatch(intent) of src/unnamed/part_012, lines 46-73
dispatch_v3 == \E res \in ActionResults : Dispatched(dispatchEffects_v3(intent, res))

\* the callback openApp handed to exec runs, with or without an error
ExecCallback ==
  /\ pending # <<>>
  /\ \E error \in BOOLEAN :
       events' = events \o << [ev |-> "callback", error |-> error],
                              [ev |-> "log", line |-> IF error THEN "open_failed" ELSE "opened",
                               text |-> Head(pending)] >>
  /\ pending' = Tail(pending)
  /\ UNCHANGED <<rawText, brain, pc, intent, outcome>>
  /\ UNCHANGED waVars
  /\ UNCHANGED uiVars
  /\ UNCHANGED actVars

Next == Classify \/ dispatch \/ dispatch_v2 \/ dispatch_v3 \/ ExecCallback

Spec == Init /\ [][Next]_vars

(***************************************************************************)
(* The WhatsApp Web session of src/actions/whatsapp.ts.  A call is         *)
(* sendWhatsAppMessage or checkNewMessages; between two awaits its code    *)
(* runs without interruption, and every await is a point where another     *)
(* call may run.  Every awaited operation may resolve or reject.           *)
(***************************************************************************)
WaKinds == {"send", "check"}

\* the send steps with the contact name typed before the search box is awaited
SendSteps_typeFirst ==
  << "click(searchBox)", "type(to)", "waitForSelector(searchBox)", "press(Enter)",
     "waitForSelector(messageBox)", "click(messageBox)", "type(message)", "press(Enter)" >>

\* the awaited page operations of each call, in program order
SendSteps ==
  << "waitForSelector(searchBox)", "click(searchBox)", "type(to)", "press(Enter)",
     "waitForSelector(messageBox)", "click(messageBox)", "type(message)", "press(Enter)" >>
CheckSteps == << "$$(unread)" >>
StepsOf(kind) == IF kind = "send" THEN SendSteps ELSE CheckSteps

\* what a call does after its last page operation: console.log of the sent
\* line, or the return of the unread count
Epilogue(kind) == IF kind = "send" THEN <<"log(sent)">> ELSE <<"return(count)">>

\* the page operation call f is awaiting
OpOf(f) == StepsOf(f.kind)[f.step]

\* a failed page operation that is started once more
OpFailed_retry(f) == [f EXCEPT !.att = Append(@, OpOf(f))]

\* the awaited page operation rejects: the exception leaves the async
\* function, whose promise rejects; nothing after the await runs
OpFailed(f) == [f EXCEPT !.pc = "rejected"]

Calls == 1..Len(waCalls)
SetCall(c, f) == [waCalls EXCEPT ![c] = f]

\* a call begins: if (!page) await startWhatsApp(), and inside startWhatsApp
\* if (browser) return, else the launch is started
WaCall ==
  /\ Len(waCalls) < MaxCalls
  /\ \E kind \in WaKinds :
       LET c == Len(waCalls) + 1
       IN IF waPage # 0
            THEN /\ waCalls' = Append(waCalls, [kind |-> kind, pc |-> "op", step |-> 1, ctx |-> 0, pg |-> 0, did |-> <<>>,
                                                     att |-> <<StepsOf(kind)[1]>>])
                 /\ waUsed' = waUsed \cup {<<c, waPage>>}
                 /\ UNCHANGED <<waLaunched>>
          ELSE IF waBrowser # 0
            THEN /\ waCalls' = Append(waCalls, [kind |-> kind, pc |-> "started", step |-> 0, ctx |-> 0, pg |-> 0, did |-> <<>>,
                                                     att |-> <<>>])
                 /\ UNCHANGED <<waUsed, waLaunched>>
          ELSE   /\ waCalls' = Append(waCalls, [kind |-> kind, pc |-> "launching", step |-> 0,
                                                ctx |-> waLaunched + 1, pg |-> 0, did |-> <<>>, att |-> <<>>])
                 /\ waLaunched' = waLaunched + 1
                 /\ UNCHANGED <<waUsed>>
  /\ UNCHANGED <<waBrowser, waPage, waPagesMade>>
  /\ UNCHANGED pipeVars
  /\ UNCHANGED uiVars
  /\ UNCHANGED actVars

\* launchPersistentContext settles: browser = the context, then browser.newPage() is started
WaLaunchDone ==
  \E c \in Calls : \E ok \in BOOLEAN :
    /\ waCalls[c].pc = "launching"
    /\ IF ok
         THEN /\ waBrowser' = waCalls[c].ctx
              /\ waPagesMade' = waPagesMade + 1
              /\ waCalls' = SetCall(c, [waCalls[c] EXCEPT !.pc = "newPage", !.pg = waPagesMade + 1])
         ELSE /\ waCalls' = SetCall(c, [waCalls[c] EXCEPT !.pc = "rejected"])
              /\ UNCHANGED <<waBrowser, waPagesMade>>
    /\ UNCHANGED <<waPage, waLaunched, waUsed>>
    /\ UNCHANGED pipeVars
    /\ UNCHANGED uiVars
    /\ UNCHANGED actVars

\* newPage settles: page = the new page, then page.goto(...) is started
WaNewPageDone ==
  \E c \in Calls : \E ok \in BOOLEAN :
    /\ waCalls[c].pc = "newPage"
    /\ IF ok
         THEN /\ waPage' = waCalls[c].pg
              /\ waUsed' = waUsed \cup {<<c, waCalls[c].pg>>}
              /\ waCalls' = SetCall(c, [waCalls[c] EXCEPT !.pc = "goto"])
         ELSE /\ waCalls' = SetCall(c, [waCalls[c] EXCEPT !.pc = "rejected"])
              /\ UNCHANGED <<waPage, waUsed>>
    /\ UNCHANGED <<waBrowser, waLaunched, waPagesMade>>
    /\ UNCHANGED pipeVars
    /\ UNCHANGED uiVars
    /\ UNCHANGED actVars

\* goto settles: the line is logged and startWhatsApp returns
WaGotoDone ==
  \E c \in Calls : \E ok \in BOOLEAN :
    /\ waCalls[c].pc = "goto"
    /\ waCalls' = SetCall(c, [waCalls[c] EXCEPT !.pc = IF ok THEN "started" ELSE "rejected"])
    /\ UNCHANGED <<waBrowser, waPage, waLaunched, waPagesMade, waUsed>>
    /\ UNCHANGED pipeVars
    /\ UNCHANGED uiVars
    /\ UNCHANGED actVars

\* the call continues after await startWhatsApp(): its first page!.operation
\* is started on whatever page holds now; on null it throws a TypeError
WaStarted ==
  \E c \in Calls :
    /\ waCalls[c].pc = "started"
    /\ IF waPage = 0
         THEN /\ waCalls' = SetCall(c, [waCalls[c] EXCEPT !.pc = "typeError"])
              /\ UNCHANGED waUsed
         ELSE /\ waCalls' = SetCall(c, [waCalls[c] EXCEPT !.pc = "op", !.step = 1,
                                                          !.att = <<StepsOf(waCalls[c].kind)[1]>>])
              /\ waUsed' = waUsed \cup {<<c, waPage>>}
    /\ UNCHANGED <<waBrowser, waPage, waLaunched, waPagesMade>>
    /\ UNCHANGED pipeVars
    /\ UNCHANGED uiVars
    /\ UNCHANGED actVars

\* the awaited page operation settles: on success the next one is started on
\* the page that holds now, or the call returns after the last one; on
\* failure the call rejects
WaOpDone ==
  \E c \in Calls : \E ok \in BOOLEAN :
    /\ waCalls[c].pc = "op"
    /\ IF ~ok
         THEN /\ waCalls' = SetCall(c, OpFailed(waCalls[c]))
              /\ UNCHANGED waUsed
       ELSE IF waCalls[c].step = Len(StepsOf(waCalls[c].kind))
         THEN /\ waCalls' = SetCall(c, [waCalls[c] EXCEPT !.pc = "done",
                                          !.did = Append(@, OpOf(waCalls[c])) \o Epilogue(waCalls[c].kind)])
              /\ UNCHANGED waUsed
         ELSE /\ waCalls' = SetCall(c, [waCalls[c] EXCEPT !.step = @ + 1,
                                                          !.did = Append(@, OpOf(waCalls[c])),
                                                          !.att = Append(@, StepsOf(waCalls[c].kind)[waCalls[c].step + 1])])
              /\ waUsed' = waUsed \cup {<<c, waPage>>}
    /\ UNCHANGED <<waBrowser, waPage, waLaunched, waPagesMade>>
    /\ UNCHANGED pipeVars
    /\ UNCHANGED uiVars
    /\ UNCHANGED actVars

InitSession ==
  /\ rawText = ""
  /\ brain = "localBrain"
  /\ pc = "heard"
  /\ intent = NoIntent
  /\ events = <<>>
  /\ pending = <<>>
  /\ outcome = "none"
  /\ InitWA
  /\ InitAct
  /\ InitUi

(***************************************************************************)
(* The actions called directly, outside the pipeline: openApp, the         *)
(* open_application tool and createFile are exported functions and tool    *)
(* handlers that take whatever argument the caller or the remote model     *)
(* passes.                                                                 *)
(***************************************************************************)
AppArgs == {"chrome", "Chrome", "WhatsApp", "notepad", "calculator", "explorer", "spotify", "constructor"}
FileArgs == {Str("notes.txt"), Str("docs/a.txt"), Str("docs"), Str("notes.txt/x"), Null}
Contents == {Str("hello"), Str("")}

\* the disks a run can start from
InitDisks ==
  { EmptyDisk,
    [dirs |-> {".", "./docs"}, files |-> <<>>],
    writeFileSync(EmptyDisk, "./notes.txt", "old"),
    writeFileSync([dirs |-> {".", "./docs"}, files |-> <<>>], "./docs/a.txt", "old") }

\* openApp(app) called directly
CallOpenApp ==
  /\ ops < MaxOps
  /\ \E app \in AppArgs :
       /\ events' = events \o << [ev |-> "call", fn |-> "openApp", app |-> Str(app)] >> \o openApp(Str(app))
       /\ pending' = pending \o openAppCallbacks(Str(app))
       /\ result' = [fn |-> "openApp", app |-> app,
                     ret |-> IF openAppRejects(Str(app)) THEN "rejected" ELSE "resolved"]
  /\ ops' = ops + 1
  /\ UNCHANGED <<rawText, brain, pc, intent, outcome, disk>>
  /\ UNCHANGED waVars
  /\ UNCHANGED uiVars

\* handleToolCall({name: 'open_application', args: {app_name}})
ToolOpenApplication ==
  /\ ops < MaxOps
  /\ \E app_name \in AppArgs :
       /\ events' = events \o << [ev |-> "call", fn |-> "open_application", app |-> Str(app_name)] >>
                            \o open_application(app_name).events
       /\ result' = [fn |-> "open_application", app |-> app_name,
                     ret |-> open_application(app_name).ret]
  /\ ops' = ops + 1
  /\ UNCHANGED <<rawText, brain, pc, intent, pending, outcome, disk>>
  /\ UNCHANGED waVars
  /\ UNCHANGED uiVars

\* createFile(fileName, content) called directly
CallCreateFile ==
  /\ ops < MaxOps
  /\ \E fileName \in FileArgs, content \in Contents, fail \in FsFailures :
       LET r == createFile(disk, fileName, content, fail)
       IN /\ disk' = r.disk
          /\ events' = events \o r.events
          /\ result' = [fn |-> "createFile", fileName |-> fileName, content |-> content,
                        before |-> disk, ret |-> r.ret]
  /\ ops' = ops + 1
  /\ UNCHANGED <<rawText, brain, pc, intent, pending, outcome>>
  /\ UNCHANGED waVars
  /\ UNCHANGED uiVars

InitActions ==
  /\ rawText = ""
  /\ brain = "localBrain"
  /\ pc = "heard"
  /\ intent = NoIntent
  /\ events = <<>>
  /\ pending = <<>>
  /\ outcome = "none"
  /\ InitWA
  /\ disk \in InitDisks
  /\ result = NoResult
  /\ ops = 0
  /\ InitUi

NextActions == CallOpenApp \/ ToolOpenApplication \/ CallCreateFile \/ ExecCallback

SpecActions == InitActions /\ [][NextActions]_vars

NextWA == WaCall \/ WaLaunchDone \/ WaNewPageDone \/ WaGotoDone \/ WaStarted \/ WaOpDone

SpecWA == InitSession /\ [][NextWA]_vars

(***************************************************************************)
(* The slot extractors called directly (src/brain/localBrain.ts and its    *)
(* later revision src/unnamed/part_007): exported pure functions of a      *)
(* string.  A run fixes one text and calls extractors on it, repeatedly.   *)
(***************************************************************************)
ExtractTexts ==
  { "", "hello there", "what's the weather", "whatsapp browser", "browser whatsapp",
    "open calc and notepad", "chat on google", "note for the editor", "calculator",
    "send message to ram hello boss", "TO Ram", "tomorrow", "message", "set volume 80",
    "volume", "create file notes.txt", "file named a.txt saying hi", "with text hello",
    "Open CHROME", "text ram i am coming" }

\* the fallbacks passed to extractNumber: the default, which is also what detectIntent passes, and another
Fallbacks == {50, 30}

InitExtract ==
  /\ xText \in ExtractTexts
  /\ xCalls = <<>>
  /\ rawText = ""
  /\ brain = "localBrain"
  /\ pc = "heard"
  /\ intent = NoIntent
  /\ events = <<>>
  /\ pending = <<>>
  /\ outcome = "none"
  /\ InitWA
  /\ InitAct
  /\ IdleRest

\* one more extractor call on the text, recorded with what it returned
Extracted(call) ==
  /\ Len(xCalls) < MaxExtractCalls
  /\ xCalls' = Append(xCalls, call)
  /\ UNCHANGED xText
  /\ UNCHANGED notExt

CallExtractNumber ==
  \E fb \in Fallbacks :
    Extracted([fn |-> "extractNumber", fallback |-> fb, ret |-> extractNumber(xText, fb)])

CallExtractAppName ==
  \E b \in Brains :
    Extracted([fn |-> "extractAppName", brain |-> b, ret |-> extractAppNameOf(b, xText)])

CallExtractContact == Extracted([fn |-> "extractContact", ret |-> extractContact(xText)])

CallExtractMessage == Extracted([fn |-> "extractMessage", ret |-> extractMessage(xText)])

CallExtractFileName == Extracted([fn |-> "extractFileName", ret |-> extractFileName(xText)])

CallExtractFileContent == Extracted([fn |-> "extractFileContent", ret |-> extractFileContent(xText)])

NextExtract ==
  \/ CallExtractNumber
  \/ CallExtractAppName
  \/ CallExtractContact
  \/ CallExtractMessage
  \/ CallExtractFileName
  \/ CallExtractFileContent

SpecExtract == InitExtract /\ [][NextExtract]_vars

(***************************************************************************)
(* The tool-call loop of the Myra app's onmessage handler                  *)
(* (src/unnamed/part_004, lines 765-789).  The handler is async: it is     *)
(* suspended at await handleToolCall(fc), and the handler of another       *)
(* message can run meanwhile.                                              *)
(***************************************************************************)
\* the functionCalls lists of the toolCall messages the session delivers
ToolMessages ==
  { << [name |-> "open_application", arg |-> "chrome"] >>,
    << [name |-> "play_music", arg |-> ""], [name |-> "send_whatsapp_message", arg |-> "ram"] >>,
    << [name |-> "send_whatsapp_message", arg |-> "ram"], [name |-> "open_application", arg |-> "spotify"] >>,
    << [name |-> "create_file", arg |-> "notes.txt"], [name |-> "open_application", arg |-> "chrome"] >> }

\* prev.slice(0, 5): the entries kept behind a new one
ToolLogKeep == 5

\* how handleToolCall(fc) can settle: it returns a result or it throws
\* (unsupported application, file I/O error, automation timeout, unknown tool)
handleToolCall(fc) ==
  CASE fc.name = "open_application" ->
         IF "threw" \in DOMAIN open_application(fc.arg).ret THEN {"error"} ELSE {"result"}
    [] fc.name \in {"create_file", "send_whatsapp_message"} -> {"result", "error"}
    [] OTHER -> {"error"}

\* setToolLogs(prev => [{id, name, args, status: 'pending'}, ...prev.slice(0, 5)])
Logged(logs, fc) ==
  << [id |-> fc.id, name |-> fc.name, status |-> "pending"] >>
    \o SubSeq(logs, 1, MinOf({Len(logs), ToolLogKeep}))

\* setToolLogs(prev => prev.map(t => t.id === id ? {...t, status} : t))
Marked(logs, id, st) ==
  [j \in 1..Len(logs) |-> IF logs[j].id = id THEN [logs[j] EXCEPT !.status = st] ELSE logs[j]]

\* a loop that sends no response for a call that threw
Answer_dropError(fc, o) ==
  IF o = "error" THEN <<>> ELSE << [id |-> fc.id, name |-> fc.name, response |-> o] >>

\* session.sendToolResponse({functionResponses: {id, name, response}}) after
\* the try/catch: the response carries the result, or {error: e.message}
Answer(fc, o) == << [id |-> fc.id, name |-> fc.name, response |-> o] >>

\* onmessage with msg.toolCall: the loop starts with the first function call
OnToolCall ==
  /\ Len(tMsgs) < MaxToolMsgs
  /\ \E calls \in ToolMessages :
       LET m == Len(tMsgs) + 1
           fcs == [k \in 1..Len(calls) |-> [id |-> <<m, k>>, name |-> calls[k].name, arg |-> calls[k].arg]]
       IN /\ tMsgs' = Append(tMsgs, [calls |-> fcs, i |-> 1, pc |-> "await", outs |-> <<>>])
          /\ toolLogs' = Logged(toolLogs, fcs[1])
  /\ UNCHANGED <<tSent, tErrors>>
  /\ UNCHANGED notTool

\* await handleToolCall(fc) settles: the entry is marked, an error is logged,
\* the response is sent, and the loop goes on to the next call or ends
ToolSettled ==
  \E m \in 1..Len(tMsgs) :
    /\ tMsgs[m].pc = "await"
    /\ LET h == tMsgs[m]
           fc == h.calls[h.i]
           last == h.i = Len(h.calls)
       IN \E o \in handleToolCall(fc) :
            LET marked == Marked(toolLogs, fc.id, IF o = "result" THEN "success" ELSE "error")
            IN /\ tErrors' = IF o = "error" THEN Append(tErrors, fc.id) ELSE tErrors
               /\ tSent' = tSent \o Answer(fc, o)
               /\ toolLogs' = IF last THEN marked ELSE Logged(marked, h.calls[h.i + 1])
               /\ tMsgs' = [tMsgs EXCEPT ![m] = [h EXCEPT !.outs = Append(@, o),
                                                          !.i = IF last THEN @ ELSE @ + 1,
                                                          !.pc = IF last THEN "done" ELSE "await"]]
    /\ UNCHANGED notTool

NextTools == OnToolCall \/ ToolSettled

SpecTools == InitSession /\ [][NextTools]_vars

(***************************************************************************)
(* Playback of the audio chunks in the Myra app's onmessage handler        *)
(* (src/unnamed/part_004, lines 744-763).  The handler is suspended at     *)
(* await decodeAudioData(...); the handlers of later messages can run      *)
(* meanwhile, and the decodes are taken to resolve in the order they were  *)
(* started.  Times are whole ticks of the playback clock.                  *)
(***************************************************************************)
\* buffer.duration of a chunk, in ticks
Durations == {1, 2}

\* the playback clock of the audio context advances on its own
AudioTick ==
  /\ aClock < MaxClock
  /\ aClock' = aClock + 1
  /\ UNCHANGED <<nextStartTime, aMsgs, aStarted>>
  /\ UNCHANGED notAudio

\* onmessage with audio data: nextStartTimeRef.current = Math.max(nextStartTimeRef.current,
\* ctx.currentTime), then the handler waits for decodeAudioData
OnAudio ==
  /\ Len(aMsgs) < MaxChunks
  /\ \E d \in Durations :
       aMsgs' = Append(aMsgs, [pc |-> "decode", dur |-> d, seen |-> aClock])
  /\ nextStartTime' = MaxOf({nextStartTime, aClock})
  /\ UNCHANGED <<aClock, aStarted>>
  /\ UNCHANGED notAudio

\* onmessage with serverContent.interrupted and no audio: every source is
\* stopped and forgotten, and nextStartTimeRef.current = 0
OnInterrupted ==
  /\ aMsgs # <<>>
  /\ aStarted' = [k \in 1..Len(aStarted) |-> [aStarted[k] EXCEPT !.stopped = TRUE]]
  /\ nextStartTime' = 0
  /\ UNCHANGED <<aClock, aMsgs>>
  /\ UNCHANGED notAudio

\* the oldest pending decodeAudioData resolves: source.start(nextStartTimeRef.current),
\* then nextStartTimeRef.current += buffer.duration
DecodeDone ==
  \E m \in 1..Len(aMsgs) :
    /\ aMsgs[m].pc = "decode"
    /\ \A j \in 1..(m - 1) : aMsgs[j].pc = "done"
    /\ aStarted' = Append(aStarted, [msg |-> m, when |-> nextStartTime, dur |-> aMsgs[m].dur,
                                     seen |-> aMsgs[m].seen, stopped |-> FALSE])
    /\ nextStartTime' = nextStartTime + aMsgs[m].dur
    /\ aMsgs' = [aMsgs EXCEPT ![m].pc = "done"]
    /\ UNCHANGED aClock
    /\ UNCHANGED notAudio

NextAudio == AudioTick \/ OnAudio \/ OnInterrupted \/ DecodeDone

SpecAudio == InitSession /\ [][NextAudio]_vars

(***************************************************************************)
(* The connection of the Myra app (src/unnamed/part_004, lines 611-866):   *)
(* startAssistant, the session callbacks onopen, onclose and onerror, and  *)
(* stopAssistant.  An attempt is one startAssistant call past its status   *)
(* test; its session is the socket ai.live.connect opens for it.           *)
(***************************************************************************)
\* setStatus(v), with the value before the change remembered
SetStatus(v) ==
  /\ status' = v
  /\ prevStatus' = IF v = status THEN prevStatus ELSE status

\* what stopAssistant and the catch of startAssistant have in common:
\* status idle, isListening false, stream stopped, frame timer cleared,
\* audio context closed
BackToIdle ==
  /\ SetStatus("idle")
  /\ isListening' = FALSE
  /\ held' = {}

SetAttempt(a, r) == attempts' = [attempts EXCEPT ![a] = r]

\* a click on the start button: startAssistant up to its first await.  Without
\* an API key it throws at once and its catch runs.
ClickStart ==
  /\ status = "idle"
  /\ Len(attempts) < MaxAttempts
  /\ \E key \in BOOLEAN :
       IF key
         THEN /\ SetStatus("connecting")
              /\ isListening' = TRUE
              /\ attempts' = Append(attempts, [pc |-> "getUserMedia", session |-> "none"])
              /\ UNCHANGED held
         ELSE /\ BackToIdle
              /\ attempts' = Append(attempts, [pc |-> "failed", session |-> "none"])
  /\ UNCHANGED notMyra

\* getUserMedia settles: the stream and the audio context are kept and
\* ai.live.connect is started, or the catch runs
MediaSettled ==
  \E a \in 1..Len(attempts) : \E ok \in BOOLEAN :
    /\ attempts[a].pc = "getUserMedia"
    /\ IF ok
         THEN /\ held' = held \cup {"mediaStream", "audioCtx"}
              /\ SetAttempt(a, [pc |-> "connect", session |-> "connecting"])
              /\ UNCHANGED <<status, prevStatus, isListening>>
         ELSE /\ BackToIdle
              /\ SetAttempt(a, [pc |-> "failed", session |-> "none"])
    /\ UNCHANGED notMyra

\* the socket opens: onopen sets status online and starts the frame timer;
\* connect resolves and startAssistant runs to its end, or its audio input
\* set-up throws and the catch runs (the session stays open)
ConnectOpened ==
  \E a \in 1..Len(attempts) : \E ok \in BOOLEAN :
    /\ attempts[a].pc = "connect"
    /\ IF ok
         THEN /\ SetStatus("online")
              /\ held' = held \cup {"frameInterval"}
              /\ SetAttempt(a, [pc |-> "booted", session |-> "open"])
              /\ UNCHANGED isListening
         ELSE /\ BackToIdle
              /\ SetAttempt(a, [pc |-> "failed", session |-> "open"])
    /\ UNCHANGED notMyra

\* the socket fails before it opens: connect rejects and the catch runs
ConnectRejected ==
  \E a \in 1..Len(attempts) :
    /\ attempts[a].pc = "connect"
    /\ BackToIdle
    /\ SetAttempt(a, [pc |-> "failed", session |-> "closed"])
    /\ UNCHANGED notMyra

\* an open session closes or fails: onclose / onerror call stopAssistant
SessionClosed ==
  \E a \in 1..Len(attempts) :
    /\ attempts[a].session = "open"
    /\ BackToIdle
    /\ SetAttempt(a, [attempts[a] EXCEPT !.session = "closed"])
    /\ UNCHANGED notMyra

\* a click on the stop button, which is shown while status is online:
\* stopAssistant; the session is not closed
ClickStop ==
  /\ status = "online"
  /\ BackToIdle
  /\ UNCHANGED attempts
  /\ UNCHANGED notMyra

NextMyra ==
  ClickStart \/ MediaSettled \/ ConnectOpened \/ ConnectRejected \/ SessionClosed \/ ClickStop

SpecMyra == InitSession /\ [][NextMyra]_vars

(***************************************************************************)
(* The WhatsApp watcher (src/actions/whatsapp.ts, lines 91-117): the       *)
(* callback setInterval runs every 15 seconds.                             *)
(***************************************************************************)
\* if (unread > lastUnreadCount) { ...; onNewMessage({from, unreadCount: unread, timestamp}) }
WatcherTells(unread, last) == IF unread > last THEN <<unread>> ELSE <<>>

\* one run of the interval callback: checkNewMessages resolves with the number
\* of unread badges, or rejects and the catch logs the error
WatcherPoll ==
  /\ Len(polls) < MaxPolls
  /\ \/ \E unread \in 0..MaxUnread :
          /\ polls' = Append(polls, [ok |-> TRUE, seen |-> unread,
                                     told |-> WatcherTells(unread, lastUnreadCount)])
          /\ lastUnreadCount' = IF unread > lastUnreadCount THEN unread ELSE lastUnreadCount
     \/ /\ polls' = Append(polls, [ok |-> FALSE, seen |-> 0, told |-> <<>>])
        /\ UNCHANGED lastUnreadCount
  /\ UNCHANGED notWatch

NextWatch == WatcherPoll

SpecWatch == InitSession /\ [][NextWatch]_vars

(***************************************************************************)
(* Tasks and reminders (src/App.tsx, lines 276-340): the 5-second interval *)
(* of the mount effect, and the setReminder and completeTask tools.        *)
(***************************************************************************)
\* minutesFromNow * 60000, in ticks
Delays == {0, 1}

SetsMade == LET RECURSIVE sum(_)
                sum(k) == IF k = 0 THEN 0 ELSE tasks[k].sets + sum(k - 1)
            IN sum(Len(tasks))

\* time passes
TaskClock ==
  /\ tNow < MaxNow
  /\ tNow' = tNow + 1
  /\ UNCHANGED <<tasks, lastFired>>
  /\ UNCHANGED notTasks

\* handleFunctionCall, setReminder: the task whose title matches gets
\* reminderAt = Date.now() + minutesFromNow * 60000; without a match a new
\* task with that reminder is appended
SetReminder ==
  /\ SetsMade < MaxSets
  /\ \E d \in Delays :
       \/ \E i \in 1..Len(tasks) :
            tasks' = [tasks EXCEPT ![i].reminderAt = tNow + d, ![i].sets = @ + 1]
       \/ /\ Len(tasks) < MaxTasks
          /\ tasks' = Append(tasks, [completed |-> FALSE, reminderAt |-> tNow + d, sets |-> 1, fired |-> 0])
  /\ UNCHANGED <<tNow, lastFired>>
  /\ UNCHANGED notTasks

\* handleFunctionCall, completeTask, and the check button of a task
CompleteTask ==
  /\ \E i \in 1..Len(tasks) :
       /\ ~tasks[i].completed
       /\ tasks' = [tasks EXCEPT ![i].completed = TRUE]
  /\ UNCHANGED <<tNow, lastFired>>
  /\ UNCHANGED notTasks

\* currentTasks.find(t => !t.completed && t.reminderAt && t.reminderAt <= now): the
\* positions of the tasks that qualify; find takes the first
DueTasks(ts, now) ==
  {i \in 1..Len(ts) : ~ts[i].completed /\ ts[i].reminderAt # 0 /\ ts[i].reminderAt <= now}

\* an update that leaves reminderAt as it is
Triggered_keeps(ts, i) == [ts EXCEPT ![i].fired = @ + 1]

\* triggerReminder(dueTask), and the list with dueTask's reminderAt undefined
Triggered(ts, i) == [ts EXCEPT ![i].reminderAt = 0, ![i].fired = @ + 1]

\* one run of the interval callback
ReminderTick ==
  /\ IF DueTasks(tasks, tNow) = {}
       THEN /\ lastFired' = <<>>
            /\ UNCHANGED tasks
       ELSE LET i == MinOf(DueTasks(tasks, tNow))
            IN /\ tasks' = Triggered(tasks, i)
               /\ lastFired' = << [task |-> i, completed |-> tasks[i].completed,
                                   reminderAt |-> tasks[i].reminderAt, now |-> tNow] >>
  /\ UNCHANGED tNow
  /\ UNCHANGED notTasks

NextTasks == TaskClock \/ SetReminder \/ CompleteTask \/ ReminderTick

SpecTasks == InitSession /\ [][NextTasks]_vars

\* setInterval keeps running the callback every 5 seconds while the app is mounted
SpecTasksFair == SpecTasks /\ WF_vars(ReminderTick)

(***************************************************************************)
(* Claims about detectIntent and dispatch, checked under Spec.             *)
(***************************************************************************)
\* the utterance contains word w once lower-cased
Says(raw, w) == includes(toLowerCase(raw), w)
\* the utterance contains one of the wake words of the gate
HasWakeWord(raw) ==
  LET t == toLowerCase(raw) IN \E k \in 1..Len(wakeWords) : includes(t, wakeWords[k])
\* the wake phrases, as a set
WakePhrases == {wakeWords[k] : k \in 1..Len(wakeWords)}
\* text t contains one of the words
SaysAny(t, words) == \E k \in 1..Len(words) : includes(t, words[k])
\* text t contains an alias of some app of the alias table
NamesApp(t) ==
  \E k \in 1..Len(APP_ALIASES) : SaysAny(t, APP_ALIASES[k].aliases)
\* the first decimal number written in t, as <<n>>, or <<>> when t has no digit
FirstNumber(t) ==
  LET at == {i \in 1..Len(t) : Ch(t, i) \in {"0", "1", "2", "3", "4", "5", "6", "7", "8", "9"}}
      stop(i) == {j \in i..Len(t) : j \notin at}
      last(i) == IF stop(i) = {} THEN Len(t) ELSE MinOf(stop(i)) - 1
  IN IF at = {} THEN <<>> ELSE <<toNumber(SubSeq(t, MinOf(at), last(MinOf(at))))>>

\* C1: an utterance that contains no wake word (after lower-casing) is returned
\* as CHAT whose text is the utterance exactly as passed in.
C1_ChatPassThrough ==
  (pc = "classified" /\ ~HasWakeWord(rawText)) =>
     intent = [type |-> "CHAT", text |-> Str(rawText)]

\* C1 witness: an utterance without wake word that lower-casing and trimming
\* would change has been classified.
C1_Witness ==
  /\ pc = "classified"
  /\ ~HasWakeWord(rawText)
  /\ rawText # trim(toLowerCase(rawText))
  /\ intent.type = "CHAT"

\* the utterances made of a wake word followed by 'open' and an alias of WhatsApp
C2_Utterances ==
  {w \o " open " \o a : w \in WakePhrases, a \in {"whatsapp", "whats app", "chat"}}

\* C2: a wake word followed by 'open' and any alias of WhatsApp gives OPEN_APP
\* with app = 'whatsapp'.
C2_OpenWhatsAppAlias ==
  (pc = "classified" /\ rawText \in C2_Utterances) =>
     intent = [type |-> "OPEN_APP", app |-> Str("whatsapp")]

\* C2 witness: 'ok bumba open chat', an alias that is not the app's name, has
\* been classified.
C2_Witness ==
  pc = "classified" /\ rawText = "ok bumba open chat" /\ intent.type = "OPEN_APP"

\* the number that follows the first 'volume' of t, as <<n>>, or <<>>
NumberAfterVolume(t) ==
  FirstNumber(SubSeq(t, indexOf(t, "volume") + 6, Len(t)))

\* C3 as stated: every utterance with a wake word and 'volume' followed by a
\* number N gives VOLUME with value N, and VOLUME 50 when it has no number.
C3_Original ==
  (pc = "classified" /\ HasWakeWord(rawText) /\ Says(rawText, "volume")) =>
     LET t == toLowerCase(rawText)
     IN /\ NumberAfterVolume(t) # <<>> =>
             intent = [type |-> "VOLUME", value |-> NumberAfterVolume(t)[1]]
        /\ FirstNumber(t) = <<>> => intent = [type |-> "VOLUME", value |-> 50]

\* C3 amended: when the cleaned text of an utterance with a wake word contains
\* 'volume', matches no file-creation keyword and is not an open/launch/start
\* command naming a known app, detectIntent returns VOLUME whose value is the
\* first decimal number of the cleaned text (the N after 'volume' when no digit
\* precedes it), or 50 when the cleaned text has no digit.
C3_VolumeFirstNumber ==
  LET clean == cleaned(rawText, brain)
  IN (/\ pc = "classified"
      /\ HasWakeWord(rawText)
      /\ includes(clean, "volume")
      /\ ~SaysAny(clean, createWords)
      /\ ~(SaysAny(clean, openWords) /\ NamesApp(clean))) =>
        intent = [type |-> "VOLUME",
                  value |-> IF FirstNumber(clean) = <<>> THEN 50 ELSE FirstNumber(clean)[1]]

\* C3 witness: both cases of the amended claim have happened in one run of
\* the classifier each: here 'hey bumba set volume to 80' gave 80.
C3_Witness ==
  pc = "classified" /\ rawText = "hey bumba set volume to 80"
     /\ intent = [type |-> "VOLUME", value |-> 80]

\* C4, parsing 'send message to <name> <body>': the name is the run of
\* lower-case letters after 'send message to ', the body is what follows the
\* single space after the name
C4_NameEnd(t) == runEnd(t, 17, "lower")
C4_Name(t) == SubSeq(t, 17, C4_NameEnd(t) - 1)
C4_Body(t) == SubSeq(t, C4_NameEnd(t) + 1, Len(t))
C4_IsSendForm(t) ==
  /\ Len(t) > 16
  /\ SubSeq(t, 1, 16) = "send message to "
  /\ C4_NameEnd(t) > 17
  /\ C4_NameEnd(t) < Len(t)
  /\ Ch(t, C4_NameEnd(t)) = " "
  /\ C4_Body(t) # ""
  /\ C4_Body(t) = trim(C4_Body(t))
  /\ ~includes(C4_Body(t), "\n")

\* C4 as stated: every utterance of the form 'send message to <name> <body>'
\* gives SEND_MESSAGE with to = <name> and text = <body>.
C4_Original ==
  (pc = "classified" /\ C4_IsSendForm(rawText)) =>
     intent = [type |-> "SEND_MESSAGE", to |-> Str(C4_Name(rawText)),
               text |-> Str(C4_Body(rawText))]

\* the utterance is a wake phrase, a space, and then t
C4_AfterWake(raw, t) == \E w \in WakePhrases : raw = w \o " " \o t

\* the part of the utterance after its wake phrase
C4_Command(raw) ==
  LET ends == {n \in 1..Len(raw) : SubSeq(raw, 1, n) \in {w \o " " : w \in WakePhrases}}
  IN IF ends = {} THEN "" ELSE SubSeq(raw, MaxOf(ends) + 1, Len(raw))

\* C4 amended: every utterance made of a wake phrase followed by
\* 'send message to <name> <body>', where <name> is a run of lower-case letters,
\* <body> is non-empty lower-case text on one line without surrounding spaces,
\* and the command contains no wake word, no file-creation keyword, no volume
\* keyword and no open/launch/start keyword together with an app alias, gives
\* SEND_MESSAGE with to = <name> and text = <body> (the body only).
C4_SendAfterWake ==
  LET t == C4_Command(rawText)
  IN (/\ pc = "classified"
      /\ C4_AfterWake(rawText, t)
      /\ C4_IsSendForm(t)
      /\ t = toLowerCase(t)
      /\ ~HasWakeWord(t)
      /\ ~SaysAny(t, createWords)
      /\ ~SaysAny(t, volumeWords)
      /\ ~(SaysAny(t, openWords) /\ NamesApp(t))) =>
        intent = [type |-> "SEND_MESSAGE", to |-> Str(C4_Name(t)), text |-> Str(C4_Body(t))]

\* C4 witness: 'hey bumba send message to ram hello boss' has been classified
\* as SEND_MESSAGE to ram with the body only.
C4_Witness ==
  /\ pc = "classified"
  /\ rawText = "hey bumba send message to ram hello boss"
  /\ intent = [type |-> "SEND_MESSAGE", to |-> Str("ram"), text |-> Str("hello boss")]

C5_Call == [ev |-> "call", fn |-> "openApp", app |-> Str("chrome")]
C5_Spawn == [ev |-> "spawn", command |-> "start chrome"]
C5_Opened ==
  << [ev |-> "callback", error |-> FALSE],
     [ev |-> "log", line |-> "opened", text |-> Str("chrome")] >>
C5_Failed ==
  << [ev |-> "callback", error |-> TRUE],
     [ev |-> "log", line |-> "open_failed", text |-> Str("chrome")] >>

\* C5: 'hey bumba open chrome' is classified OPEN_APP chrome; its dispatch
\* invokes the open-app action with 'chrome' and no other action; the action
\* spawns 'start chrome' exactly once; and the callback that reports no error
\* logs the success line.  The events happen in this order.
C5_OpenChromeEndToEnd ==
  rawText = "hey bumba open chrome" =>
    /\ pc = "heard" => (intent = NoIntent /\ events = <<>>)
    /\ pc = "classified" =>
         (intent = [type |-> "OPEN_APP", app |-> Str("chrome")] /\ events = <<>>)
    /\ pc = "dispatched" =>
         /\ intent = [type |-> "OPEN_APP", app |-> Str("chrome")]
         /\ \/ events = <<C5_Call, C5_Spawn>> /\ pending = <<Str("chrome")>>
            \/ events = <<C5_Call, C5_Spawn>> \o C5_Opened /\ pending = <<>>
            \/ events = <<C5_Call, C5_Spawn>> \o C5_Failed /\ pending = <<>>

\* C5 witness: the whole scenario has run and the success line is logged.
C5_Witness ==
  /\ rawText = "hey bumba open chrome"
  /\ pc = "dispatched"
  /\ events = <<C5_Call, C5_Spawn>> \o C5_Opened

StructuredTypes == {"OPEN_APP", "VOLUME", "SEND_MESSAGE", "CREATE_FILE"}

\* C6: dispatching an intent that is not a structured command (CHAT, WAKE_UP,
\* AI_FALLBACK) only writes one log line: no action is called, nothing is
\* spawned or written, no callback is registered and no browser session is
\* started; 'what's the weather' is classified CHAT and dispatched that way.
C6_LogOnly ==
  /\ (pc = "dispatched" /\ intent.type \notin StructuredTypes) =>
        /\ Len(events) = 1
        /\ events[1].ev = "log"
        /\ events[1].line = "chat"
        /\ pending = <<>>
        /\ waLaunched = 0
        /\ waCalls = <<>>
  /\ (pc # "heard" /\ rawText = "what's the weather") =>
        intent = [type |-> "CHAT", text |-> Str("what's the weather")]

\* C6 witness: 'what's the weather' has been dispatched.
C6_Witness ==
  /\ pc = "dispatched"
  /\ rawText = "what's the weather"
  /\ Len(events) = 1

\* the slots of each variant of Intent
SlotsOf(t) ==
  CASE t = "OPEN_APP" -> {"app"}
    [] t = "VOLUME" -> {"value"}
    [] t = "SEND_MESSAGE" -> {"to", "text"}
    [] t = "CREATE_FILE" -> {"name", "content"}
    [] t = "CHAT" -> {"text"}
    [] t = "WAKE_UP" -> {"raw"}
    [] t = "AI_FALLBACK" -> {"raw"}

\* C7: for every input detectIntent returns one Intent whose type is one of the
\* seven variants and whose slots are exactly those of the variant, each
\* defined (a string, or a number for VOLUME).
C7_Total ==
  pc = "classified" =>
    /\ intent.type \in IntentTypes
    /\ DOMAIN intent = {"type"} \cup SlotsOf(intent.type)
    /\ \A f \in SlotsOf(intent.type) :
         IF f = "value" THEN intent[f] \in Nat ELSE intent[f] # Null

\* C7 witness: an utterance with a wake word and an open keyword but no app,
\* where the open branch has to be left, has been classified.
C7_Witness ==
  /\ pc = "classified"
  /\ rawText = "bumba open the volume 30"
  /\ intent = [type |-> "VOLUME", value |-> 30]

\* C8 as stated: an utterance that is a wake phrase alone, in any letter case
\* and with surrounding whitespace, gives WAKE_UP whose raw is the utterance.
C8_WakeAlone ==
  (pc = "classified" /\ trim(toLowerCase(rawText)) \in WakePhrases) =>
     intent = [type |-> "WAKE_UP", raw |-> Str(rawText)]

\* C9 as stated: whatever the invoked action does, dispatch completes normally:
\* no exception reaches its caller and no rejected promise is left unhandled.
C9_NoFailureEscapes ==
  pc = "dispatched" => outcome \in {"returned", "resolved"}

(***************************************************************************)
(* Claims about the WhatsApp Web session, checked under SpecWA.            *)
(***************************************************************************)
\* C10 as stated: over any interleaving of send-message and check-messages
\* calls the persistent context is launched at most once and every call
\* operates on the same page handle.
C10_SingleSession ==
  /\ waLaunched <= 1
  /\ \A u, v \in waUsed : u[2] = v[2]

(***************************************************************************)
(* Further claims about dispatch and detectIntent, checked under Spec.     *)
(***************************************************************************)
\* the action calls among the events
CallsMade == SelectSeq(events, LAMBDA e : e.ev = "call")

\* the action function of each structured intent tag
ActionOf(t) ==
  CASE t = "OPEN_APP" -> "openApp"
    [] t = "VOLUME" -> "setVolume"
    [] t = "SEND_MESSAGE" -> "sendMessage"
    [] t = "CREATE_FILE" -> "createFile"

\* C11 as stated: a dispatch of a structured intent invokes the action of its
\* tag exactly once with the slots of the intent, and no dispatch invokes two
\* actions or the action of another tag.
C11_OneActionPerTag ==
  pc = "dispatched" =>
    IF intent.type \in StructuredTypes
      THEN CallsMade = <<callEvent(ActionOf(intent.type), intent)>>
      ELSE CallsMade = <<>>

\* the categories in the order the claim gives, and the keywords of each
C12_Order == <<"CREATE_FILE", "OPEN_APP", "VOLUME", "SEND_MESSAGE">>
C12_Keywords(cat) ==
  CASE cat = "CREATE_FILE" -> <<"create file", "new file", "text file", "document">>
    [] cat = "OPEN_APP" -> <<"open", "launch", "start">>
    [] cat = "VOLUME" -> <<"volume", "sound", "voice">>
    [] cat = "SEND_MESSAGE" -> <<"send", "message", "text", "whatsapp">>

\* text t matches the keywords of the category and the slots of the category
\* can be extracted from it
C12_Eligible(cat, t) ==
  /\ SaysAny(t, C12_Keywords(cat))
  /\ cat = "OPEN_APP" => NamesApp(t)
  /\ cat = "SEND_MESSAGE" => (Truthy(extractContact(t)) /\ Truthy(extractMessage(t)))

C12_EligibleAt(t) == {k \in 1..4 : C12_Eligible(C12_Order[k], t)}

\* C12: when the cleaned text of an utterance with a wake word matches the
\* keywords of several categories whose slots can be extracted, detectIntent
\* returns the intent of the earliest of them in the order CREATE_FILE,
\* OPEN_APP, VOLUME, SEND_MESSAGE, wherever the keywords stand in the text.
C12_FirstMatchWins ==
  (pc = "classified" /\ HasWakeWord(rawText)) =>
     LET at == C12_EligibleAt(cleaned(rawText, brain))
     IN Cardinality(at) >= 2 => intent.type = C12_Order[MinOf(at)]

\* C12 witness: the volume keyword stands before 'open chrome' in the text and
\* the utterance is classified OPEN_APP; and 'open chrome' stands before
\* 'create file' in another one classified CREATE_FILE.
C12_Witness ==
  /\ pc = "classified"
  /\ rawText \in {"bumba set volume to 80 open chrome", "bumba open chrome create file notes.txt"}
  /\ intent.type = (IF rawText = "bumba set volume to 80 open chrome" THEN "OPEN_APP" ELSE "CREATE_FILE")

\* the utterances made of a wake phrase and the command
C13_Said(cmd) == {w \o " " \o cmd : w \in WakePhrases}

\* C13 as stated: when a category's keywords match but a required slot is
\* missing, detectIntent goes on to the later categories: 'open the volume 30'
\* after a wake phrase gives VOLUME 30, and a send utterance that lacks a
\* contact ('send hello') or names a contact but has no message body ('send
\* message to ram') is not SEND_MESSAGE and ends in AI_FALLBACK.
C13_FallThrough ==
  pc = "classified" =>
    /\ rawText \in C13_Said("open the volume 30") => intent = [type |-> "VOLUME", value |-> 30]
    /\ rawText \in C13_Said("send hello") => intent.type = "AI_FALLBACK"
    /\ rawText \in C13_Said("send message to ram") => intent.type = "AI_FALLBACK"

\* C14: when the utterance contains a wake word, its cleaned remainder has at
\* least 2 characters and no keyword category yields a structured intent,
\* detectIntent returns AI_FALLBACK whose raw is the cleaned remainder; and
\* with a wake word present it never returns CHAT.
C14_Fallback ==
  (pc = "classified" /\ HasWakeWord(rawText)) =>
     /\ intent.type # "CHAT"
     /\ LET clean == cleaned(rawText, brain)
        IN (Len(clean) >= 2 /\ C12_EligibleAt(clean) = {}) =>
              intent = [type |-> "AI_FALLBACK", raw |-> Str(clean)]

\* C14 witness: an upper-case, padded utterance with a wake word and no
\* command keyword has been classified AI_FALLBACK with the cleaned remainder.
C14_Witness ==
  /\ pc = "classified"
  /\ rawText = " Hey BUMBA what's the weather"
  /\ intent.type = "AI_FALLBACK"
  /\ intent.raw # Str(rawText)

\* C15 as stated: for every wake phrase w of the gate and every command text c
\* without wake word (lower-case, no surrounding spaces), the cleaned remainder
\* of the utterance 'w c' is c: no fragment of the phrase and no wake word is
\* left in it.
C15_WholePhraseStripped ==
  (pc = "classified" /\ \E w \in WakePhrases :
       Len(rawText) > Len(w) /\ SubSeq(rawText, 1, Len(w) + 1) = w \o " ") =>
     LET c == C4_Command(rawText)
     IN (c # "" /\ c = trim(toLowerCase(c)) /\ ~HasWakeWord(c)) =>
           cleaned(rawText, brain) = c

\* the upper-case letter of each lower-case letter
C16_UpperOf == [c \in LowerChars |-> Ch(UpperCase, IndexIn(c, LowerCase))]

\* u with every letter in upper case, and u with the case of every letter swapped
RECURSIVE C16_Upper(_)
C16_Upper(u) ==
  IF u = "" THEN ""
  ELSE (IF IsLower(Ch(u, 1)) THEN C16_UpperOf[Ch(u, 1)] ELSE Ch(u, 1))
         \o C16_Upper(SubSeq(u, 2, Len(u)))
RECURSIVE C16_Swap(_)
C16_Swap(u) ==
  IF u = "" THEN ""
  ELSE (IF IsLower(Ch(u, 1)) THEN C16_UpperOf[Ch(u, 1)] ELSE toLowerChar(Ch(u, 1)))
         \o C16_Swap(SubSeq(u, 2, Len(u)))

\* same intent type and, for the structured intents and AI_FALLBACK, same slots
C16_Same(i, j) ==
  /\ i.type = j.type
  /\ i.type \in StructuredTypes \cup {"AI_FALLBACK"} => i = j

\* C16: detectIntent(u) and detectIntent of u with letters changed between
\* upper and lower case (all upper, all lower, every letter swapped) return the
\* same intent type and, for OPEN_APP, VOLUME, SEND_MESSAGE, CREATE_FILE and
\* AI_FALLBACK, the same slot values.
C16_CaseInsensitive ==
  pc = "classified" =>
    \A v \in {C16_Upper(rawText), toLowerCase(rawText), C16_Swap(rawText)} \ {rawText} :
       C16_Same(intent, detectIntent(v, brain))

\* C16 witness: a mixed-case command has been classified as a structured intent
\* and its upper-case and swapped-case forms differ from it.
C16_Witness ==
  /\ pc = "classified"
  /\ rawText = " Hey BUMBA open chrome"
  /\ intent = [type |-> "OPEN_APP", app |-> Str("chrome")]
  /\ Cardinality({rawText, C16_Upper(rawText), toLowerCase(rawText), C16_Swap(rawText)}) = 4

\* the utterance is 'bumbas', a space and a command; the command
C17_Embedded(raw) == Len(raw) > 7 /\ SubSeq(raw, 1, 7) = "bumbas "
C17_Command(raw) == SubSeq(raw, 8, Len(raw))

\* C17: an utterance in which the wake word occurs only inside a longer word
\* ('bumbas <command>') passes the wake-word gate: it is not returned as the
\* pass-through CHAT, and whenever '<command>' said after the wake word
\* standing alone gives a structured intent, the utterance gives that same
\* intent; 'bumbas open chrome' gives OPEN_APP chrome.
C17_SubstringGate ==
  (pc = "classified" /\ C17_Embedded(rawText)) =>
     LET alone == detectIntent("bumba " \o C17_Command(rawText), brain)
     IN /\ intent.type # "CHAT"
        /\ IF alone.type \in StructuredTypes
             THEN intent = alone
             ELSE intent.type \notin StructuredTypes
        /\ rawText = "bumbas open chrome" =>
             intent = [type |-> "OPEN_APP", app |-> Str("chrome")]

\* C17 witness: 'bumbas open chrome' has been classified OPEN_APP.
C17_Witness ==
  /\ pc = "classified"
  /\ rawText = "bumbas open chrome"
  /\ intent.type = "OPEN_APP"

(***************************************************************************)
(* Claims about the actions called directly, checked under SpecActions.    *)
(***************************************************************************)
\* the registry each open-application entry point looks the key up in
C18_Registry(fn) == IF fn = "openApp" THEN APP_COMMANDS ELSE TOOL_APP_COMMANDS
\* the positions in events of the open-application calls
C18_Calls == {k \in 1..Len(events) : events[k].ev = "call" /\ events[k].fn \in {"openApp", "open_application"}}
\* event k reports that an app is not supported
C18_Unsupported(k) ==
  /\ k <= Len(events)
  /\ \/ events[k].ev = "log" /\ events[k].line = "not_supported"
     \/ events[k].ev = "throw" /\ events[k].error # "TypeError"
\* event k reports the outcome of opening an app
C18_ReportsOutcome(k) ==
  \/ events[k].ev = "log" /\ events[k].line \in {"opened", "open_failed"}
  \/ events[k].ev = "return"
C18_Spawns == {k \in 1..Len(events) : events[k].ev = "spawn"}

\* C18 as stated: an open-application call looks the app up by its lower-cased
\* key; when the key is absent from the registry nothing is spawned and an
\* unsupported-app failure is reported; when it is present the registered
\* command is spawned exactly once; and the outcome (opened or failed) is
\* reported only from the spawn callback.
C18_OpenApp ==
  /\ \A k \in C18_Calls :
       LET key == toLowerCase(events[k].app[1])
           reg == C18_Registry(events[k].fn)
       IN IF key \in DOMAIN reg
            THEN k < Len(events) /\ events[k + 1] = [ev |-> "spawn", command |-> reg[key]]
            ELSE C18_Unsupported(k + 1)
  /\ \A k \in C18_Spawns : k - 1 \in C18_Calls
  /\ \A k \in 1..Len(events) :
       C18_ReportsOutcome(k) => (k > 1 /\ events[k - 1].ev = "callback")

\* C19: createFile never throws.  It returns either a success result carrying
\* the resolved path, and then the parent directory exists and the file at that
\* path holds exactly the given content, whatever was at the path before; or a
\* failure result carrying the error.
C19_CreateFile ==
  result.fn = "createFile" =>
    LET r == result.ret
    IN /\ DOMAIN r \in {{"success", "path"}, {"success", "error"}}
       /\ r.success \in BOOLEAN
       /\ r.success =>
            /\ "path" \in DOMAIN r
            /\ r.path = "./" \o result.fileName[1]
            /\ dirname(r.path) \in disk.dirs
            /\ r.path \in DOMAIN disk.files
            /\ disk.files[r.path] = result.content[1]
       /\ ~r.success => "error" \in DOMAIN r

\* C19 witness: createFile has returned success for a path where a file with
\* other content was before.
C19_Witness ==
  /\ result.fn = "createFile"
  /\ result.ret.success
  /\ result.ret.path \in DOMAIN result.before.files
  /\ result.before.files[result.ret.path] # result.content[1]

(***************************************************************************)
(* Further claims about the WhatsApp Web session, checked under SpecWA.    *)
(***************************************************************************)
\* the steps the claim names, in the order it gives
C20_Order ==
  << "waitForSelector(searchBox)", "type(to)", "press(Enter)",
     "waitForSelector(messageBox)", "type(message)", "press(Enter)", "log(sent)" >>
\* the steps of C20_Order among what a call has done so far
C20_Done(f) == SelectSeq(f.did, LAMBDA op : \E k \in 1..Len(C20_Order) : C20_Order[k] = op)

\* C20: a send-message call runs its steps in one fixed order and never skips
\* ahead: the contact name is typed only after the search input has appeared,
\* Enter is pressed after the name is typed, the message is typed only after
\* the message box has appeared, the submitting Enter comes only after the
\* message is typed, and the success line only after that submit.
C20_FixedOrder ==
  \A c \in Calls :
    waCalls[c].kind = "send" =>
      /\ Len(C20_Done(waCalls[c])) <= Len(C20_Order)
      /\ C20_Done(waCalls[c]) = SubSeq(C20_Order, 1, Len(C20_Done(waCalls[c])))

\* C20 witness: two send calls are in flight at different steps, one of them
\* has logged its success line.
C20_Witness ==
  \E c, e \in Calls :
    /\ waCalls[c].kind = "send" /\ waCalls[e].kind = "send"
    /\ C20_Done(waCalls[c]) = C20_Order
    /\ Len(C20_Done(waCalls[e])) \in 1..3

\* C21: a failed step of a send-message call fails the call once: every step
\* is attempted at most once and in order, and when a step has rejected (the
\* wait for the search input or for the message box among them) the steps
\* completed are exactly those before it, nothing later is attempted, no
\* success line is logged, and the session keeps its context and page for the
\* next call.
C21_FailsOnce ==
  \A c \in Calls :
    LET f == waCalls[c]
    IN f.kind = "send" =>
         /\ f.att = SubSeq(SendSteps, 1, Len(f.att))
         /\ (f.pc = "rejected" /\ f.step >= 1) =>
               /\ f.att = SubSeq(SendSteps, 1, f.step)
               /\ f.did = SubSeq(SendSteps, 1, f.step - 1)
               /\ waBrowser # 0
               /\ waPage # 0

\* C21 witness: a send call was rejected at the wait for the message box, and
\* the next send call ran to its end on the same page.
C21_Witness ==
  /\ Len(waCalls) = 2
  /\ waCalls[1].kind = "send" /\ waCalls[1].pc = "rejected" /\ waCalls[1].step = 5
  /\ waCalls[2].kind = "send" /\ waCalls[2].pc = "done"
  /\ \A u, v \in waUsed : u[2] = v[2]

\* C25: a call that goes on to use the page handle after its start step
\* always finds the handle set: no call ends in the TypeError of an operation
\* on a null page.
C25_PageSetAfterStart ==
  \A c \in Calls : waCalls[c].pc # "typeError"

\* the canonical app keys, as the claim lists them
C26_Keys == {"chrome", "whatsapp", "notepad", "calculator"}

\* C26: every key of the alias table has an entry in the open-app registry;
\* the app of an OPEN_APP intent is one of the four canonical keys; and the
\* dispatch of an OPEN_APP intent logs no 'app not supported' line and spawns
\* exactly one command.
C26_OpenAppSupported ==
  /\ \A k \in 1..Len(APP_ALIASES) :
       APP_ALIASES[k].app \in C26_Keys /\ APP_ALIASES[k].app \in DOMAIN APP_COMMANDS
  /\ (pc # "heard" /\ intent.type = "OPEN_APP") =>
       /\ intent.app # Null
       /\ intent.app[1] \in C26_Keys
  /\ (pc = "dispatched" /\ intent.type = "OPEN_APP") =>
       /\ \A k \in 1..Len(events) :
            ~(events[k].ev = "log" /\ events[k].line = "not_supported")
       /\ Cardinality({k \in 1..Len(events) : events[k].ev = "spawn"}) = 1

\* C26 witness: an OPEN_APP intent for the messaging app was dispatched and
\* its registry command was spawned.
C26_Witness ==
  /\ pc = "dispatched"
  /\ intent = [type |-> "OPEN_APP", app |-> Str("whatsapp")]
  /\ \E k \in 1..Len(events) : events[k] = [ev |-> "spawn", command |-> "start whatsapp:"]

\* the keywords of each extractor; a text has a keyword when it contains it
\* in any letter case
C23_Keywords(fn) ==
  CASE fn = "extractAppName" ->
         {"chrome", "browser", "google", "whatsapp", "whats app", "chat",
          "notepad", "editor", "note", "calculator", "calc"}
    [] fn = "extractContact" -> {"to", "whatsapp"}
    [] fn = "extractMessage" -> {"message", "text"}
    [] fn = "extractFileName" -> {"named", "file", "create"}
    [] fn = "extractFileContent" -> {"content", "saying", "with"}
    [] OTHER -> {}

C23_NoKeyword(fn) ==
  IF fn = "extractNumber"
    THEN \A i \in 1..Len(xText) : Ch(xText, i) \notin {"0", "1", "2", "3", "4", "5", "6", "7", "8", "9"}
    ELSE \A w \in C23_Keywords(fn) : ~includes(toLowerCase(xText), w)

\* C23: every extractor call on a text that contains none of the extractor's
\* keywords returns the absent result, on the first call and on every
\* repeated call: null for extractAppName, extractContact and extractMessage,
\* the caller's fallback for extractNumber, 'new_file.txt' for
\* extractFileName and the default content for extractFileContent.
C23_AbsentResult ==
  \A k \in 1..Len(xCalls) :
    LET c == xCalls[k]
    IN C23_NoKeyword(c.fn) =>
         CASE c.fn = "extractNumber" -> c.ret = c.fallback
           [] c.fn = "extractFileName" -> c.ret = "new_file.txt"
           [] c.fn = "extractFileContent" -> c.ret = "Created by Myra Assistant"
           [] OTHER -> c.ret = <<>>

\* C23 witness: the file-name extractor was called twice on a text without
\* any of its keywords and returned the default name both times.
C23_Witness ==
  /\ xText = "what's the weather"
  /\ Len(xCalls) = 2
  /\ \A k \in 1..2 : xCalls[k] = [fn |-> "extractFileName", ret |-> "new_file.txt"]

\* the canonical apps in table order, and their aliases
C24_Order == <<"chrome", "whatsapp", "notepad", "calculator">>
C24_Aliases ==
  [chrome |-> {"chrome", "browser", "google"}, whatsapp |-> {"whatsapp", "whats app", "chat"},
   notepad |-> {"notepad", "editor", "note"}, calculator |-> {"calculator", "calc"}]
C24_Occurs(k) == \E a \in C24_Aliases[C24_Order[k]] : includes(xText, a)

C22_Settled(m) == IF tMsgs[m].pc = "done" THEN Len(tMsgs[m].calls) ELSE tMsgs[m].i - 1

\* C22: for every toolCall message, the responses sent for its calls are, in
\* the order the calls were listed, exactly one response per settled call with
\* the call's id and name, carrying the result when handleToolCall returned
\* and the error when it threw; an error line is logged exactly for the calls
\* that threw; and the log entry of a settled call reads 'success' or 'error'
\* accordingly, while the entry of the call awaited reads 'pending'.
C22_AnsweredOnce ==
  \A m \in 1..Len(tMsgs) :
    LET h == tMsgs[m]
        n == C22_Settled(m)
        mine == SelectSeq(tSent, LAMBDA r : r.id[1] = m)
        errs == SelectSeq(tErrors, LAMBDA e : e[1] = m)
        threw == SelectSeq([k \in 1..n |-> <<m, k, h.outs[k]>>], LAMBDA t : t[3] = "error")
    IN /\ Len(h.outs) = n
       /\ mine = [k \in 1..n |-> [id |-> <<m, k>>, name |-> h.calls[k].name, response |-> h.outs[k]]]
       /\ errs = [k \in 1..Len(threw) |-> <<m, threw[k][2]>>]
       /\ \A j \in 1..Len(toolLogs) :
            toolLogs[j].id[1] = m =>
              LET k == toolLogs[j].id[2]
              IN /\ toolLogs[j].name = h.calls[k].name
                 /\ toolLogs[j].status =
                      IF k > n THEN "pending"
                      ELSE IF h.outs[k] = "result" THEN "success" ELSE "error"

\* C22 witness: two messages were handled to the end, the second overtaking
\* the first; a call that threw and a call that returned were both answered,
\* and their entries read 'error' and 'success'.
C22_Witness ==
  /\ Len(tMsgs) = 2
  /\ tMsgs[1].pc = "done" /\ tMsgs[2].pc = "done"
  /\ tMsgs[1].outs = <<"error", "result">>
  /\ Len(tSent) = 3
  /\ tSent[1].id = <<2, 1>>
  /\ \E j \in 1..Len(toolLogs) : toolLogs[j].id = <<1, 1>> /\ toolLogs[j].status = "error"
  /\ \E j \in 1..Len(toolLogs) : toolLogs[j].id = <<1, 2>> /\ toolLogs[j].status = "success"

\* C28: every chunk is started no earlier than the playback time its handler
\* read, no earlier than the end (start + duration) of the chunk started
\* before it unless that chunk was stopped by an interruption, and the chunks
\* are started in the order their messages arrived.
C28_BackToBack ==
  \A k \in 1..Len(aStarted) :
    /\ aStarted[k].when >= aStarted[k].seen
    /\ k > 1 =>
         /\ aStarted[k].msg > aStarted[k - 1].msg
         /\ ~aStarted[k - 1].stopped => aStarted[k].when >= aStarted[k - 1].when + aStarted[k - 1].dur

\* C27: the status changes only from idle to connecting, from connecting to
\* online or back to idle, and from online to idle; while status is idle no
\* attempt is between its start and its end, isListening is false and the
\* stream, the frame timer and the audio context are released.
C27_StatusCycle ==
  /\ <<prevStatus, status>> \in
       { <<"idle", "idle">>, <<"idle", "connecting">>, <<"connecting", "online">>,
         <<"connecting", "idle">>, <<"online", "idle">> }
  /\ status = "idle" =>
       /\ \A a \in 1..Len(attempts) : attempts[a].pc \notin {"getUserMedia", "connect"}
       /\ isListening = FALSE
       /\ held = {}

\* the count observed by the last poll before poll k that observed one; 0
\* when there is none
C29_Before(k) ==
  LET earlier == {j \in 1..(k - 1) : polls[j].ok}
  IN IF earlier = {} THEN 0 ELSE polls[MaxOf(earlier)].seen

\* C29: a poll that observes more unread messages than the poll before it
\* observed passes that count to onNewMessage exactly once, a poll that
\* observes no increase passes nothing, and a poll that failed passes nothing
\* and is followed by further polls.
C29_ReportsIncrease ==
  \A k \in 1..Len(polls) :
    IF polls[k].ok /\ polls[k].seen > C29_Before(k)
      THEN polls[k].told = <<polls[k].seen>>
      ELSE polls[k].told = <<>>

\* task i is open and its reminder time has passed
C30_Due(i) ==
  /\ i <= Len(tasks)
  /\ ~tasks[i].completed
  /\ tasks[i].reminderAt # 0
  /\ tasks[i].reminderAt <= tNow

C30_Safe ==
  /\ \A i \in 1..Len(tasks) :
       /\ tasks[i].fired <= tasks[i].sets
       /\ tasks[i].fired = tasks[i].sets => tasks[i].reminderAt = 0
  /\ Len(lastFired) <= 1
  /\ \A k \in 1..Len(lastFired) :
       /\ ~lastFired[k].completed
       /\ lastFired[k].reminderAt # 0
       /\ lastFired[k].reminderAt <= lastFired[k].now

\* C30: a task's reminder is triggered at most as often as it was set, and
\* once every set reminder has been triggered reminderAt is cleared; a run of
\* the interval triggers at most one task, and only a task that is not
\* completed and whose reminderAt is at or before the time of the run; and an
\* open task whose reminderAt has passed is eventually triggered (its
\* reminderAt, which only a trigger clears, is cleared), unless it is
\* completed or its reminder is set to a later time first.
C30_FiresOnce ==
  /\ []C30_Safe
  /\ \A i \in 1..MaxTasks :
       C30_Due(i) ~>
         (i <= Len(tasks) /\ (tasks[i].reminderAt = 0 \/ tasks[i].completed \/ tasks[i].reminderAt > tNow))

\* C30 witness: two open tasks were due at once; one run of the interval has
\* triggered the first of them and cleared its reminderAt, the other is still due.
C30_Witness ==
  /\ Len(tasks) = 3
  /\ lastFired # <<>> /\ lastFired[1].task = 2
  /\ tasks[2].fired = 1 /\ tasks[2].sets = 1 /\ tasks[2].reminderAt = 0
  /\ C30_Due(3) /\ tasks[3].fired = 0

====
